---- MODULE Spec2Model ----
(***************************************************************************)
(* ARES agent coordination engine: AgentRegistry, TaskCoordinator,         *)
(* WorkflowEngine and RoutingManager (src/src/ares/coordination), and the  *)
(* AgentCoordinationService in front of them (src/src/ares/services).      *)
(*                                                                         *)
(* Tasks are identified by their position in `tasks` (the UUID of the      *)
(* source); every collection of the coordinator holds ids, which stand for *)
(* the shared TaskDefinition objects.  error_message is modelled by        *)
(* whether it is set; the datetime fields (assigned_at, started_at,        *)
(* completed_at) are written together with the status and are never read  *)
(* by a decision of the coordinator, so they are left out.  Scores are     *)
(* exact rationals: a score is the integer numerator over ScoreDen(task).  *)
(***************************************************************************)
EXTENDS Integers, Sequences, FiniteSets, TLC

\* ------------------------------------------------------------------ bounds
MaxTasks == 2
MaxLimit == 2
MaxAssignments == 1
MaxWorkflows == 1
MaxExecutions == 2
MaxBackgroundTasks == 1
MaxRoutes == 2
MaxRoundRobin == 4
MaxCoordinations == 1
MaxRules == 1
MaxRefreshes == 3
MaxHeldTasks == 2

\* ------------------------------------------------------- program constants
MinimumScore == 30
DefaultLimit == 5
BusyWorkloadStep == 25
HistoryLimit == 100
ProficiencyScale == 2520

\* ------------------------------------------------------------ the registry
AgentOrder == <<"a1", "a2">>
\* the agents of the routing scenarios, in the order they are registered
RoutedOrder == <<"w2", "w1", "w3">>
Agents == {AgentOrder[i] : i \in 1..Len(AgentOrder)}
UnknownAgent == "nobody"
AgentNames == Agents \cup {UnknownAgent}

Cap(n, p) == [name |-> n, proficiency_level |-> p]

AgentProfile(n, category, caps, prio, rel) ==
    [name |-> n, category |-> category,
     capabilities |-> caps, priority_level |-> prio,
     reliability_score |-> rel, total_tasks_completed |-> 0,
     status |-> "available", workload_percentage |-> 0,
     max_concurrent_tasks |-> 2]

RegisteredAgents ==
    [a \in Agents |->
        IF a = "a1"
        THEN AgentProfile("a1", "core_development", <<Cap("db_ops", 8)>>, "medium", 50)
        ELSE AgentProfile("a2", "orchestration", <<Cap("db_ops", 3), Cap("ml", 9)>>, "critical", 0)]

\* ------------------------------------------------------------- task inputs
Req(c, m, r, w) ==
    [capability |-> c, minimum_proficiency |-> m, required |-> r, weight |-> w]

Dep(t, ty, st) == [task_id |-> t, dependency_type |-> ty, status |-> st]

TaskInput(prio, reqs, pref, excl, deps) ==
    [priority |-> prio, requirements |-> reqs, preferred_agents |-> pref,
     excluded_agents |-> excl, dependencies |-> deps]

\* the create_task requests of the model
TaskInputs ==
    { TaskInput("medium", <<>>, {}, {}, <<>>),
      TaskInput("medium", <<Req("db_ops", 5, TRUE, 1)>>, {}, {"a1"}, <<>>),
      TaskInput("low", <<Req("ml", 8, TRUE, 2), Req("docs", 1, FALSE, 1)>>,
                {}, {}, <<>>),
      TaskInput("low", <<Req("docs", 5, TRUE, 1)>>, {}, {}, <<>>),
      TaskInput("critical", <<Req("db_ops", 5, TRUE, 1)>>, {"a2"}, {}, <<>>),
      TaskInput("medium", <<>>, {}, {"a1", "a2"}, <<>>),
      TaskInput("medium", <<>>, {}, {}, <<Dep(1, "prerequisite", "pending")>>),
      TaskInput("medium", <<>>, {}, {}, <<Dep(1, "prerequisite", "completed")>>) }

TaskDefinition(in) ==
    [priority |-> in.priority, requirements |-> in.requirements,
     preferred_agents |-> in.preferred_agents,
     excluded_agents |-> in.excluded_agents,
     dependencies |-> in.dependencies,
     status |-> "pending", assigned_agents |-> <<>>, error_message |-> FALSE]

\* ------------------------------------------------------------------- state
VARIABLES agents, tasks, task_queue, active_tasks, agent_assignments,
          task_history, last, workflow_definitions, executions,
          round_robin_counters, routing_decisions, agent_loads,
          active_coordinations, indexes, initialized, routing_rules, monitor,
          load_history, sampled

cvars == <<agents, tasks, task_queue, active_tasks, agent_assignments,
           task_history>>
wvars == <<workflow_definitions, executions>>
rvars == <<round_robin_counters, routing_decisions, agent_loads,
           active_coordinations>>
\* the registry's indexes, the router's rules and its load monitor
gvars == <<indexes, initialized, routing_rules, monitor, load_history, sampled>>
vars == <<agents, tasks, task_queue, active_tasks, agent_assignments,
          task_history, last, workflow_definitions, executions,
          round_robin_counters, routing_decisions, agent_loads,
          active_coordinations, indexes, initialized, routing_rules, monitor,
          load_history, sampled>>

\* the coordinator and its registry as one value, threaded through the calls
State ==
    [agents |-> agents, tasks |-> tasks, task_queue |-> task_queue,
     active_tasks |-> active_tasks, agent_assignments |-> agent_assignments,
     task_history |-> task_history]

SetState(S) ==
    /\ agents' = S.agents
    /\ tasks' = S.tasks
    /\ task_queue' = S.task_queue
    /\ active_tasks' = S.active_tasks
    /\ agent_assignments' = S.agent_assignments
    /\ task_history' = S.task_history

Call(op, t, a, retry, result) ==
    [op |-> op, task_id |-> t, agent |-> a, retry |-> retry, result |-> result]

\* ---------------------------------------------------------- list utilities
SeqToSet(s) == {s[i] : i \in 1..Len(s)}

Contains(s, x) == \E i \in 1..Len(s) : s[i] = x

\* list.remove(x): drops the first occurrence
RemoveFirst(s, x) ==
    LET i == CHOOSE k \in 1..Len(s) : s[k] = x /\ \A j \in 1..(k - 1) : s[j] # x
    IN  SubSeq(s, 1, i - 1) \o SubSeq(s, i + 1, Len(s))

Min(x, y) == IF x <= y THEN x ELSE y
Max(x, y) == IF x >= y THEN x ELSE y

RECURSIVE SumSeq(_)
SumSeq(s) == IF s = <<>> THEN 0 ELSE Head(s) + SumSeq(Tail(s))

\* ---------------------------------------------------------- AgentRegistry
\* get_agent returns None for an unregistered name: callers test IsRegistered
IsRegistered(ag, name) == name \in DOMAIN ag

get_agent(ag, name) == ag[name]

\* self.agents is a dict: its values come in registration order
RegistrationOrder(ag) ==
    SelectSeq(AgentOrder \o RoutedOrder, LAMBDA n : n \in DOMAIN ag)

get_available_agents(ag) ==
    SelectSeq(RegistrationOrder(ag), LAMBDA n : ag[n].status = "available")

update_agent_status(ag, name, status) ==
    IF name \notin DOMAIN ag THEN ag
    ELSE [ag EXCEPT ![name].status = status,
                    ![name].workload_percentage =
                        IF status = "busy" THEN Min(100, @ + BusyWorkloadStep)
                        ELSE IF status = "available" THEN 0
                        ELSE @]

update_agent_metrics(ag, name, total) ==
    IF name \notin DOMAIN ag THEN ag
    ELSE [ag EXCEPT ![name].total_tasks_completed = total]

\* -------------------------------------------------------- TaskCoordinator
priority_bonus(agent_level, task_priority) ==
    LET row ==
          [critical |-> [critical |-> 15, high |-> 10, medium |-> 5, low |-> 0],
           high     |-> [critical |-> 10, high |-> 15, medium |-> 10, low |-> 5],
           medium   |-> [critical |-> 5, high |-> 10, medium |-> 15, low |-> 10],
           low      |-> [critical |-> 0, high |-> 5, medium |-> 10, low |-> 15]]
    IN  IF agent_level \in DOMAIN row /\ task_priority \in DOMAIN row[agent_level]
        THEN row[agent_level][task_priority]
        ELSE 0

\* first capability of the agent with the requirement's name; 0 when none
matching_proficiency(agent, requirement) ==
    LET caps == agent.capabilities
        hits == {i \in 1..Len(caps) : caps[i].name = requirement.capability}
    IN  IF hits = {} THEN 0
        ELSE caps[CHOOSE i \in hits : \A j \in hits : i <= j].proficiency_level

\* capability_max: sum of weight * 10 over the requirements
capability_max(task) ==
    SumSeq([i \in 1..Len(task.requirements) |-> task.requirements[i].weight * 10])

\* capability_score, times ProficiencyScale so that the division by
\* minimum_proficiency is exact
requirement_score(agent, requirement) ==
    LET p == matching_proficiency(agent, requirement)
        w == requirement.weight
    IN  IF p > 0
        THEN Min(w * 10 * ProficiencyScale,
                 p * w * 10 * (ProficiencyScale \div requirement.minimum_proficiency))
        ELSE IF ~requirement.required THEN w * 2 * ProficiencyScale
        ELSE 0

capability_score(agent, task) ==
    SumSeq([i \in 1..Len(task.requirements) |->
                requirement_score(agent, task.requirements[i])])

\* denominator of every score of this task: 20 (workload, reliability)
\* times ProficiencyScale times capability_max
ScoreDen(task) ==
    20 * ProficiencyScale *
        (IF task.requirements = <<>> THEN 1 ELSE capability_max(task))

\* a bonus that shrinks as the reliability grows
ReliabilityBonusMutant(agent) == 2 * (100 - agent.reliability_score)

\* reliability_bonus = reliability_score / 100 * 10, in twentieths
reliability_bonus20(agent) == 2 * agent.reliability_score

\* _calculate_assignment_score: max_score is 20 + 15 + 40 + 15 + 10 = 100, so
\* the normalized score is the accumulated score, clamped to 0..100.
\* The result is the numerator over ScoreDen(task).
calculate_assignment_score(agent, task) ==
    LET availability ==
            IF agent.status = "available" THEN 20
            ELSE IF agent.workload_percentage < 50 THEN 10 ELSE 0
        priority == priority_bonus(agent.priority_level, task.priority)
        no_requirements == IF task.requirements = <<>> THEN 20 ELSE 0
        preferred == IF agent.name \in task.preferred_agents THEN 15 ELSE 0
        cmax == IF task.requirements = <<>> THEN 1 ELSE capability_max(task)
        flat20 == 20 * (availability + priority + no_requirements + preferred)
                    + reliability_bonus20(agent) - agent.workload_percentage
        num == flat20 * ProficiencyScale * cmax
                 + 20 * 40 * capability_score(agent, task)
    IN  Max(0, Min(100 * ScoreDen(task), num))

Assignment(name, score) == [agent_name |-> name, assignment_score |-> score]

\* list.sort(key=score, reverse=True) is stable: an element goes after every
\* element whose score is at least its own
InsertByScore(sorted, x) ==
    LET before == {i \in 1..Len(sorted) :
                      sorted[i].assignment_score >= x.assignment_score}
        k == IF before = {} THEN 0 ELSE CHOOSE i \in before : \A j \in before : j <= i
    IN  SubSeq(sorted, 1, k) \o <<x>> \o SubSeq(sorted, k + 1, Len(sorted))

RECURSIVE SortByScore(_)
SortByScore(s) ==
    IF s = <<>> THEN <<>>
    ELSE InsertByScore(SortByScore(SubSeq(s, 1, Len(s) - 1)), s[Len(s)])

\* find_suitable_agents without the exclusion test of line 175
IsExcludedMutant(name, task) == FALSE

\* line 175: agent.name in task.excluded_agents
IsExcluded(name, task) == name \in task.excluded_agents

\* find_suitable_agents keeping every scored agent
MeetsMinimumMutant(score, task) == TRUE

\* line 182: score >= 30.0
MeetsMinimum(score, task) == score >= MinimumScore * ScoreDen(task)

find_suitable_agents(ag, task, limit) ==
    LET available == get_available_agents(ag)
        considered == SelectSeq(available, LAMBDA n : ~IsExcluded(n, task))
        scored == [i \in 1..Len(considered) |->
                      Assignment(considered[i],
                                 calculate_assignment_score(ag[considered[i]], task))]
        suitable == SelectSeq(scored, LAMBDA c :
                        MeetsMinimum(c.assignment_score, task))
        sorted == SortByScore(suitable)
    IN  SubSeq(sorted, 1, Min(limit, Len(sorted)))

Ret(S, result) == [S |-> S, result |-> result]

\* assign_task: the task is looked up in the queue (and removed from it), then
\* in active_tasks; the agent is looked up only afterwards
assign_task(S, task_id, agent_name) ==
    LET in_queue == Contains(S.task_queue, task_id)
        queue1 == IF in_queue THEN RemoveFirst(S.task_queue, task_id)
                  ELSE S.task_queue
        found == in_queue \/ task_id \in S.active_tasks
        S1 == [S EXCEPT !.task_queue = queue1]
    IN  IF ~found THEN Ret(S, "false")
        ELSE IF ~IsRegistered(S.agents, agent_name) THEN Ret(S1, "false")
        ELSE Ret([S1 EXCEPT
                    !.tasks[task_id].status = "assigned",
                    !.tasks[task_id].assigned_agents = <<agent_name>>,
                    !.active_tasks = @ \cup {task_id},
                    !.agent_assignments =
                        IF agent_name \in DOMAIN @
                        THEN [@ EXCEPT ![agent_name] = Append(@, task_id)]
                        ELSE [n \in DOMAIN @ \cup {agent_name} |->
                                 IF n = agent_name THEN <<task_id>> ELSE @[n]],
                    !.agents = update_agent_status(@, agent_name, "busy")],
                 "true")

\* start_task: the ActivityType member named at line 385 does not exist, so
\* evaluating the arguments of the logging call raises AttributeError after
\* the status and started_at were written
start_task(S, task_id, agent_name) ==
    IF task_id \notin S.active_tasks THEN Ret(S, "false")
    ELSE IF ~Contains(S.tasks[task_id].assigned_agents, agent_name)
    THEN Ret(S, "false")
    ELSE Ret([S EXCEPT !.tasks[task_id].status = "in_progress"], "raise")

\* the agent is marked available whatever it still holds
NoMoreTasksMutant(assignments) == TRUE

\* `if not self.agent_assignments[agent_name]:` (line 424)
NoMoreTasks(assignments) == assignments = <<>>

\* complete_task: raises AttributeError at line 447 (no such ActivityType
\* member) after the move to history and the metrics update, before the
\* dependency rescan of line 459
complete_task(S, task_id, agent_name) ==
    IF task_id \notin S.active_tasks THEN Ret(S, "false")
    ELSE IF ~Contains(S.tasks[task_id].assigned_agents, agent_name)
    THEN Ret(S, "false")
    ELSE
      LET S1 == [S EXCEPT !.tasks[task_id].status = "completed",
                          !.task_history = Append(@, task_id),
                          !.active_tasks = @ \ {task_id}]
          has_list == agent_name \in DOMAIN S1.agent_assignments
      IN  IF has_list /\ ~Contains(S1.agent_assignments[agent_name], task_id)
          THEN Ret(S1, "raise")
          ELSE
            LET list1 == IF has_list
                         THEN RemoveFirst(S1.agent_assignments[agent_name], task_id)
                         ELSE <<>>
                S2 == IF has_list
                      THEN [S1 EXCEPT
                              !.agent_assignments[agent_name] = list1,
                              !.agents = IF NoMoreTasks(list1)
                                         THEN update_agent_status(@, agent_name,
                                                                  "available")
                                         ELSE @]
                      ELSE S1
            IN  IF ~IsRegistered(S2.agents, agent_name) THEN Ret(S2, "raise")
                ELSE Ret([S2 EXCEPT !.agents =
                            update_agent_metrics(@, agent_name,
                                get_agent(S2.agents, agent_name).total_tasks_completed + 1)],
                         "raise")

\* fail_task: raises AttributeError at line 479 (no such ActivityType member)
\* after status, error_message and completed_at were written; the agent
\* release, the re-queueing and the move to history are not reached
fail_task(S, task_id, agent_name, retry) ==
    IF task_id \notin S.active_tasks THEN Ret(S, "false")
    ELSE Ret([S EXCEPT !.tasks[task_id].status = "failed",
                       !.tasks[task_id].error_message = TRUE],
             "raise")

dependencies_met(task) ==
    \A i \in 1..Len(task.dependencies) :
        ~(task.dependencies[i].dependency_type = "prerequisite"
          /\ task.dependencies[i].status # "completed")

\* _attempt_immediate_assignment: no dependency check
attempt_immediate_assignment(S, task_id) ==
    LET candidate_agents ==
            find_suitable_agents(S.agents, S.tasks[task_id], DefaultLimit)
    IN  IF candidate_agents = <<>> THEN S
        ELSE LET best_candidate == candidate_agents[1].agent_name
             IN  IF IsRegistered(S.agents, best_candidate)
                    /\ get_agent(S.agents, best_candidate).status = "available"
                 THEN assign_task(S, task_id, best_candidate).S
                 ELSE S

create_task(S, in) ==
    LET task_id == Len(S.tasks) + 1
        S1 == [S EXCEPT !.tasks = Append(@, TaskDefinition(in)),
                        !.task_queue = Append(@, task_id)]
    IN  attempt_immediate_assignment(S1, task_id)

\* process_task_queue: one pass over a copy of the queue, in queue order
RECURSIVE process_tasks(_, _)
process_tasks(S, pending) ==
    IF pending = <<>> THEN S
    ELSE
      LET task_id == Head(pending)
          candidate_agents ==
              find_suitable_agents(S.agents, S.tasks[task_id], DefaultLimit)
          S1 == IF dependencies_met(S.tasks[task_id]) /\ candidate_agents # <<>>
                   /\ get_agent(S.agents, candidate_agents[1].agent_name).status
                          = "available"
                THEN assign_task(S, task_id, candidate_agents[1].agent_name).S
                ELSE S
      IN  process_tasks(S1, Tail(pending))

process_task_queue(S) == process_tasks(S, S.task_queue)

\* ---------------------------------------------------------- WorkflowEngine
NoAgent == "None"

\* timeout_minutes of every template, in minutes
TimeoutMinutes == 1

\* step ids (default_factory=uuid4): step i of template tpl is <<-tpl, i>>,
\* step i of the workflow instance w is the fresh id <<w, i>>
TemplateStepId(tpl, i) == <<0 - tpl, i>>
StepId(w, i) == <<w, i>>

Step(caps, pref, deps, conds, retries) ==
    [required_capabilities |-> caps, preferred_agents |-> pref,
     depends_on |-> deps, conditions |-> conds, max_retries |-> retries]

Template(type, steps, k, retry) ==
    [workflow_type |-> type, steps |-> steps, max_concurrent_steps |-> k,
     auto_retry_failed_steps |-> retry]

previous_step_success == [key |-> "previous_step_success", value |-> "True"]
agent_available(a) == [key |-> "agent_available", value |-> a]

\* templates 1..6: sequential, parallel, pipeline, conditional, reactive, and
\* a sequential one whose first step depends on its second
workflow_templates ==
    <<Template("sequential",
                <<Step(<<"db_ops">>, <<"a1">>, {}, {}, 1),
                  Step(<<"ml">>, <<>>, {TemplateStepId(1, 1)}, {}, 0)>>,
                1, TRUE),
      Template("parallel",
                <<Step(<<"db_ops">>, <<"a1">>, {}, {}, 0),
                  Step(<<"ml">>, <<"a2">>, {TemplateStepId(2, 1)}, {}, 0),
                  Step(<<"docs">>, <<>>, {}, {}, 0)>>,
                3, TRUE),
      Template("pipeline",
                <<Step(<<"db_ops">>, <<"a1">>, {}, {}, 0),
                  Step(<<"ml">>, <<"a2">>, {}, {}, 0),
                  Step(<<"db_ops">>, <<>>, {TemplateStepId(3, 1)}, {}, 0)>>,
                2, TRUE),
      Template("conditional",
                <<Step(<<"db_ops">>, <<"a1">>, {}, {}, 0),
                  Step(<<"ml">>, <<>>, {TemplateStepId(4, 1)},
                       {agent_available("a2")}, 0),
                  Step(<<"db_ops">>, <<>>, {}, {previous_step_success}, 0)>>,
                3, FALSE),
      Template("reactive",
                <<Step(<<"docs">>, <<>>, {}, {}, 0)>>, 1, FALSE),
      Template("sequential",
                <<Step(<<"ml">>, <<>>, {TemplateStepId(6, 2)}, {}, 0),
                  Step(<<"db_ops">>, <<"a1">>, {}, {}, 0)>>,
                1, TRUE)>>

TemplateIds == 1..Len(workflow_templates)

\* the task a step materializes gets a fresh task_id, which the coordinator
\* has never seen: it is in neither task_queue nor active_tasks
StepTaskId(w, i) == 0 - (w * Len(workflow_templates) + i)

WorkflowStep(w, i, t) ==
    [step_id |-> StepId(w, i),
     required_capabilities |-> t.required_capabilities,
     preferred_agents |-> t.preferred_agents,
     depends_on |-> t.depends_on, conditions |-> t.conditions,
     max_retries |-> t.max_retries,
     assigned_agent |-> NoAgent, task_definition |-> FALSE,
     status |-> "pending", started_at |-> FALSE, completed_at |-> FALSE,
     error_message |-> FALSE, retry_count |-> 0]

\* create_workflow_from_template: the steps are rebuilt, so each gets a new
\* step_id, while depends_on is copied from the template as it is
WorkflowDefinition(w, tpl) ==
    LET t == workflow_templates[tpl]
    IN  [workflow_type |-> t.workflow_type,
         steps |-> [i \in 1..Len(t.steps) |-> WorkflowStep(w, i, t.steps[i])],
         max_concurrent_steps |-> t.max_concurrent_steps,
         auto_retry_failed_steps |-> t.auto_retry_failed_steps,
         timeout_minutes |-> TimeoutMinutes,
         status |-> "pending"]

WorkflowExecution(w) ==
    [workflow_id |-> w, active |-> TRUE, pc |-> "run", i |-> 1,
     completed_step_ids |-> {}, failed_step_ids |-> {},
     step_execution_times |-> {},
     step_tasks |-> <<>>, active_steps |-> <<>>, completed_steps |-> {},
     awaited |-> 0, suspended |-> FALSE, dispatched |-> {},
     attempts |-> <<>>, elapsed |-> 0]

\* capabilities_index as _build_indexes leaves it after initialize
capabilities_index(ag) ==
    [c \in UNION {{ag[a].capabilities[i].name : i \in 1..Len(ag[a].capabilities)}
                  : a \in DOMAIN ag} |->
        {a \in DOMAIN ag : \E i \in 1..Len(ag[a].capabilities) :
                               ag[a].capabilities[i].name = c}]

category_index(ag) ==
    [c \in {ag[a].category : a \in DOMAIN ag} |->
        {a \in DOMAIN ag : ag[a].category = c}]

\* _build_indexes clears both indexes and fills them from the registry
build_indexes(ag) ==
    [capabilities_index |-> capabilities_index(ag),
     category_index |-> category_index(ag)]

\* register_agent stores the profile under its name, and nothing else
register_agent(ag, profile) ==
    [n \in DOMAIN ag \cup {profile.name} |->
        IF n = profile.name THEN profile ELSE ag[n]]

\* the names the queries look up, before they are resolved in the registry
get_agents_by_category(index, category) ==
    IF category \in DOMAIN index THEN index[category] ELSE {}

get_agents_by_capability(index, c) ==
    IF c \in DOMAIN index THEN index[c] ELSE {}

has_capabilities(agent, caps) ==
    \A k \in 1..Len(caps) :
        \E i \in 1..Len(agent.capabilities) : agent.capabilities[i].name = caps[k]

\* _assign_agent_to_step: the first preferred agent that is available and has
\* every required capability; otherwise, of the available agents that have
\* any required capability, one of highest reliability_score
assign_agent_to_step(ag, step) ==
    LET pref == step.preferred_agents
        ok == {k \in 1..Len(pref) :
                  /\ IsRegistered(ag, pref[k])
                  /\ ag[pref[k]].status = "available"
                  /\ has_capabilities(ag[pref[k]], step.required_capabilities)}
        \* no agent is registered while workflows run: the index is the one
        \* _build_indexes left
        suitable == UNION {get_agents_by_capability(capabilities_index(ag),
                                                    step.required_capabilities[k])
                             : k \in 1..Len(step.required_capabilities)}
        available_agents == {a \in suitable : ag[a].status = "available"}
    IN  IF ok # {} THEN pref[CHOOSE k \in ok : \A j \in ok : k <= j]
        ELSE IF available_agents # {}
        THEN CHOOSE a \in available_agents :
                 \A b \in available_agents :
                     ag[a].reliability_score >= ag[b].reliability_score
        ELSE NoAgent

\* _check_step_dependencies answering True whatever the dependencies
CheckStepDependenciesMutant(step, execution) == TRUE

check_step_dependencies(step, execution) ==
    \A dep_id \in step.depends_on : dep_id \in execution.completed_step_ids

\* _evaluate_step_conditions answering True whatever the conditions
EvaluateStepConditionsMutant(ag, step, execution) == TRUE

evaluate_step_conditions(ag, step, execution) ==
    \A c \in step.conditions :
        /\ c.key = "previous_step_success"
              => ~(c.value = "True" /\ execution.failed_step_ids # {})
        /\ c.key = "agent_available"
              => (IsRegistered(ag, c.value) /\ ag[c.value].status = "available")

StepRun(step, S, result, dispatched) ==
    [step |-> step, S |-> S, result |-> result, dispatched |-> dispatched]

\* _execute_workflow_step from line 627: complete_task and its result
step_complete(step, S, task_id, agent) ==
    StepRun(step, complete_task(S, task_id, agent).S,
            complete_task(S, task_id, agent).result, TRUE)

\* _execute_workflow_step from line 614: start_task, then the completion
step_start(step, started, task_id, agent) ==
    IF started.result # "true" THEN StepRun(step, started.S, started.result, TRUE)
    ELSE step_complete(step, started.S, task_id, agent)

\* _execute_workflow_step from line 605: the step is in_progress (dispatched)
\* and its task goes through assign_task
step_assign(step, assigned, task_id, agent) ==
    IF assigned.result # "true" THEN StepRun(step, assigned.S, "false", TRUE)
    ELSE step_start(step, start_task(assigned.S, task_id, agent), task_id, agent)

step_dispatch(S, w, i, step, agent) ==
    IF agent = NoAgent THEN StepRun(step, S, "false", FALSE)
    ELSE step_assign([step EXCEPT !.assigned_agent = agent,
                                  !.task_definition = TRUE,
                                  !.status = "in_progress",
                                  !.started_at = TRUE],
                     assign_task(S, StepTaskId(w, i), agent),
                     StepTaskId(w, i), agent)

\* _execute_workflow_step: resolve the agent, materialize the task, set the
\* step in_progress and drive the task through assign, start and complete
execute_workflow_step(S, w, i, step) ==
    step_dispatch(S, w, i, step,
                  IF step.assigned_agent # NoAgent THEN step.assigned_agent
                  ELSE assign_agent_to_step(S.agents, step))

\* the record of one dispatch: the step and the execution's
\* completed_step_ids at the moment the step was set in_progress
Dispatch(step, execution) ==
    [step_id |-> step.step_id, completed_step_ids |-> execution.completed_step_ids]

\* one call of _execute_workflow_step: the attempt is counted, and the
\* dispatch is recorded when the step was set in_progress
Dispatched(execution, run) ==
    [execution EXCEPT
        !.attempts = Append(@, run.step.step_id),
        !.dispatched = IF run.dispatched
                       THEN @ \cup {Dispatch(run.step, execution)}
                       ELSE @]

Timed(execution, step) ==
    [execution EXCEPT !.step_execution_times = @ \cup {step.step_id}]

\* the engine with the coordinator it calls, threaded through a step
Engine(wf, ex, S) == [wf |-> wf, ex |-> ex, S |-> S]

Marked(wf, ex) == [wf |-> wf, ex |-> ex]

Advance(ex, n, after) ==
    IF ex.i + 1 > n THEN [ex EXCEPT !.i = @ + 1, !.pc = after]
    ELSE [ex EXCEPT !.i = @ + 1]

StepSucceeded(wf, ex, i, step) ==
    Marked([wf EXCEPT !.steps[i] = [step EXCEPT !.status = "completed",
                                                !.completed_at = TRUE]],
           [ex EXCEPT !.completed_step_ids = @ \cup {step.step_id}])

\* the step raised: the exception leaves the loop
step_raised(wf, ex, run) ==
    Engine([wf EXCEPT !.steps[ex.i] = run.step], [ex EXCEPT !.pc = "fail"], run.S)

\* success: completed_step_ids, status and completed_at, then the next step
step_succeeded(wf, ex, run) ==
    Engine([wf EXCEPT !.steps[ex.i] = [run.step EXCEPT !.status = "completed",
                                                       !.completed_at = TRUE]],
           Advance([ex EXCEPT !.completed_step_ids = @ \cup {run.step.step_id}],
                   Len(wf.steps), "complete"),
           run.S)

\* failure: failed_step_ids and status
step_failed(wf, ex, run) ==
    Engine([wf EXCEPT !.steps[ex.i] = [run.step EXCEPT !.status = "failed"]],
           [ex EXCEPT !.failed_step_ids = @ \cup {run.step.step_id}],
           run.S)

\* a failure that is booked and then ignored: the loop goes on
RaiseMutant(engine) ==
    [engine EXCEPT !.ex = Advance(@, Len(engine.wf.steps), "complete")]

\* raise Exception(...): the exception leaves the loop
Raise(engine) == [engine EXCEPT !.ex.pc = "fail"]

\* a retry whose outcome is taken for a success
SequentialSecondMutant(wf, ex, run2) ==
    step_succeeded(wf, Dispatched(ex, run2), run2)

\* _execute_sequential_workflow, lines 456-466: the outcome of the retry
sequential_second(wf, ex, run2) ==
    IF run2.result = "raise" THEN step_raised(wf, Dispatched(ex, run2), run2)
    ELSE IF run2.result = "true"
    THEN step_succeeded(wf, Dispatched(ex, run2), run2)
    ELSE Raise(step_failed(wf, Dispatched(ex, run2), run2))

\* _execute_sequential_workflow, lines 445-456: give up, or retry in place
sequential_retry(failed, w) ==
    IF ~failed.wf.auto_retry_failed_steps
       \/ failed.wf.steps[failed.ex.i].retry_count
            >= failed.wf.steps[failed.ex.i].max_retries
    THEN Raise(failed)
    ELSE sequential_second(failed.wf, failed.ex,
             execute_workflow_step(failed.S, w, failed.ex.i,
                 [failed.wf.steps[failed.ex.i] EXCEPT !.retry_count = @ + 1,
                                                      !.status = "pending"]))

\* _execute_sequential_workflow, lines 431-443: the outcome of the first run
sequential_first(wf, ex, w, run1) ==
    IF run1.result = "raise" THEN step_raised(wf, Dispatched(ex, run1), run1)
    ELSE IF run1.result = "true"
    THEN step_succeeded(wf, Timed(Dispatched(ex, run1), run1.step), run1)
    ELSE sequential_retry(
             step_failed(wf, Timed(Dispatched(ex, run1), run1.step), run1), w)

\* one iteration of the loop of _execute_sequential_workflow
sequential_iteration(wf, ex, S, w) ==
    IF ~check_step_dependencies(wf.steps[ex.i], ex)
    THEN Engine(wf, Advance(ex, Len(wf.steps), "complete"), S)
    ELSE sequential_first(wf, ex, w,
                          execute_workflow_step(S, w, ex.i, wf.steps[ex.i]))

\* _execute_conditional_workflow, lines 543-548: the outcome of the step
conditional_booked(wf, ex, run) ==
    IF run.result = "raise" THEN step_raised(wf, ex, run)
    ELSE IF run.result = "true"
    THEN Engine([wf EXCEPT !.steps[ex.i] = [run.step EXCEPT !.status = "completed"]],
                Advance([ex EXCEPT !.completed_step_ids = @ \cup {run.step.step_id}],
                        Len(wf.steps), "complete"),
                run.S)
    ELSE Engine([wf EXCEPT !.steps[ex.i] = [run.step EXCEPT !.status = "failed"]],
                Advance([ex EXCEPT !.failed_step_ids = @ \cup {run.step.step_id}],
                        Len(wf.steps), "complete"),
                run.S)

conditional_run(wf, ex, run) == conditional_booked(wf, Dispatched(ex, run), run)

\* one iteration of the loop of _execute_conditional_workflow
conditional_iteration(wf, ex, S, w) ==
    IF ~evaluate_step_conditions(S.agents, wf.steps[ex.i], ex)
    THEN Engine(wf, Advance(ex, Len(wf.steps), "complete"), S)
    ELSE conditional_run(wf, ex, execute_workflow_step(S, w, ex.i, wf.steps[ex.i]))

StepTask(i) == [step |-> i, state |-> "ready"]

HasReady(ex) == \E k \in 1..Len(ex.step_tasks) : ex.step_tasks[k].state = "ready"

FirstReady(ex) ==
    CHOOSE k \in 1..Len(ex.step_tasks) :
        /\ ex.step_tasks[k].state = "ready"
        /\ \A j \in 1..(k - 1) : ex.step_tasks[j].state # "ready"

\* the driver coroutine runs when it is not suspended, or when every step
\* task scheduled before its wake-up has run (the event loop is first in,
\* first out)
DriverRuns(ex) == ~ex.suspended \/ ~HasReady(ex)

\* _execute_step_with_tracking, lines 565-576: an exception of the step is
\* caught and reported as False
tracked(wf, ex, k, i, run) ==
    IF run.result = "raise"
    THEN Engine([wf EXCEPT !.steps[i] = [run.step EXCEPT !.error_message = TRUE]],
                [ex EXCEPT !.step_tasks[k].state = "false"], run.S)
    ELSE Engine([wf EXCEPT !.steps[i] = run.step],
                [Timed(ex, run.step) EXCEPT !.step_tasks[k].state = run.result],
                run.S)

\* _execute_step_with_tracking, as the body of the asyncio task k
execute_step_with_tracking(wf, ex, S, w, k) ==
    tracked(wf, Dispatched(ex, execute_workflow_step(S, w, ex.step_tasks[k].step,
                                   wf.steps[ex.step_tasks[k].step])),
            k, ex.step_tasks[k].step,
            execute_workflow_step(S, w, ex.step_tasks[k].step,
                                  wf.steps[ex.step_tasks[k].step]))

\* _execute_parallel_workflow up to asyncio.gather: one task per eligible step
parallel_spawn(wf, ex) ==
    LET eligible == SelectSeq([i \in 1..Len(wf.steps) |-> i],
                              LAMBDA i : check_step_dependencies(wf.steps[i], ex))
    IN  [ex EXCEPT !.step_tasks = [k \in 1..Len(eligible) |-> StepTask(eligible[k])],
                   !.pc = "gather",
                   !.suspended = (eligible # <<>>)]

\* the loop over the gathered results: result i is booked on workflow.steps[i]
RECURSIVE process_results(_, _, _)
process_results(wf, ex, k) ==
    IF k > Len(ex.step_tasks) THEN Marked(wf, ex)
    ELSE LET step == wf.steps[k]
             m == IF ex.step_tasks[k].state = "exception"
                  THEN Marked([wf EXCEPT !.steps[k].status = "failed",
                                         !.steps[k].error_message = TRUE],
                              [ex EXCEPT !.failed_step_ids = @ \cup {step.step_id}])
                  ELSE StepSucceeded(wf, ex, k, step)
         IN  process_results(m.wf, m.ex, k + 1)

\* _execute_pipeline_workflow, from asyncio.create_task of step ex.i to the
\* end of the iteration, or to the await of the oldest active step
pipeline_spawn(wf, ex) ==
    LET n == Len(wf.steps)
        k == Len(ex.step_tasks) + 1
        ex1 == [ex EXCEPT !.step_tasks = Append(@, StepTask(ex.i)),
                          !.active_steps = Append(@, k),
                          !.pc = "run", !.suspended = FALSE]
    IN  IF Len(ex1.active_steps) >= wf.max_concurrent_steps
        THEN LET oldest == Head(ex1.active_steps)
                 ex2 == [ex1 EXCEPT !.active_steps = Tail(@)]
             IN  IF ex2.step_tasks[oldest].state = "ready"
                 THEN [ex2 EXCEPT !.pc = "await", !.awaited = oldest,
                                  !.suspended = TRUE]
                 ELSE Advance([ex2 EXCEPT !.completed_steps = @ \cup
                                  {wf.steps[ex2.step_tasks[oldest].step].step_id}],
                              n, "drain")
        ELSE Advance(ex1, n, "drain")

pipeline_iteration(wf, ex) ==
    LET step == wf.steps[ex.i]
    IN  IF step.depends_on # {}
           /\ ~(\A dep_id \in step.depends_on : dep_id \in ex.completed_steps)
        THEN [ex EXCEPT !.pc = "sleep", !.suspended = TRUE]
        ELSE pipeline_spawn(wf, ex)

\* resumption after `await task` of the oldest active step
pipeline_awaited(wf, ex) ==
    Advance([ex EXCEPT !.completed_steps = @ \cup
                           {wf.steps[ex.step_tasks[ex.awaited].step].step_id},
                       !.pc = "run", !.suspended = FALSE],
            Len(wf.steps), "drain")

\* the loop over the remaining active steps
pipeline_drain(wf, ex) ==
    IF ex.active_steps = <<>> THEN [ex EXCEPT !.pc = "complete", !.suspended = FALSE]
    ELSE LET oldest == Head(ex.active_steps)
         IN  IF ex.step_tasks[oldest].state = "ready"
             THEN [ex EXCEPT !.suspended = TRUE]
             ELSE [ex EXCEPT !.active_steps = Tail(@),
                             !.suspended = FALSE,
                             !.completed_steps = @ \cup
                                 {wf.steps[ex.step_tasks[oldest].step].step_id}]

\* ---------------------------------------------------------- RoutingManager
RoutedAgents == {RoutedOrder[i] : i \in 1..Len(RoutedOrder)}

RoutedProfile(n) ==
    IF n = "w1" THEN AgentProfile("w1", "core_development", <<Cap("db_ops", 8)>>, "medium", 50)
    ELSE IF n = "w2" THEN AgentProfile("w2", "orchestration", <<Cap("ml", 9)>>, "critical", 0)
    ELSE AgentProfile("w3", "universal_development", <<>>, "low", 90)

\* the registries of the routing scenarios: one, two or three agents
RoutedRegistries ==
    {[a \in D |-> RoutedProfile(a)] : D \in {{"w2"}, {"w2", "w1"}, RoutedAgents}}

\* the tasks handed to route_task; task_id is the position in this list
RoutedTasks ==
    << TaskDefinition(TaskInput("medium", <<>>, {}, {}, <<>>)),
       TaskDefinition(TaskInput("critical", <<Req("ml", 5, TRUE, 1)>>, {},
                                {"w2"}, <<>>)),
       TaskDefinition(TaskInput("low", <<Req("docs", 5, TRUE, 1)>>, {}, {},
                                <<>>)) >>

RoutingStrategy ==
    {"round_robin", "least_loaded", "best_fit", "priority_based",
     "capability_weighted", "learning_optimized"}

\* agent names in the order of Python's string comparison
NameOrder == <<"a1", "a2", "w1", "w2", "w3">>

\* round-robin over the available agents in registration order
SortByNameMutant(names) == names

\* available_agents.sort(key=lambda a: a.name): names are unique
SortByName(names) == SelectSeq(NameOrder, LAMBDA n : Contains(names, n))

AgentLoad(utilization) == [utilization_percentage |-> utilization]

\* _initialize_agent_loads: one AgentLoad per registered agent
initialize_agent_loads(ag) == [a \in DOMAIN ag |-> AgentLoad(0)]

\* which return statement of the strategy built the decision stands for
\* applied_rules and decision_factors
RoutingDecision(task_id, agent, strategy, branch, alternatives) ==
    [task_id |-> task_id, selected_agent |-> agent, routing_strategy |-> strategy,
     branch |-> branch, alternative_agents |-> alternatives]

NoDecision == RoutingDecision(0, NoAgent, "none", "none", <<>>)

Routed(decision, counters) ==
    [result |-> "decision", decision |-> decision, counters |-> counters]

\* an exception leaves the strategy before any state is written
Raised(counters) ==
    [result |-> "raise", decision |-> NoDecision, counters |-> counters]

\* available_agents[:3] without the selected agent
FirstThreeBut(names, selected) ==
    SelectSeq(SubSeq(names, 1, Min(3, Len(names))), LAMBDA n : n # selected)

route_with_round_robin(counters, ag, task_id) ==
    LET available_agents == SortByName(get_available_agents(ag))
        counter == IF "general" \in DOMAIN counters THEN counters["general"] ELSE 0
        selected_agent == available_agents[(counter % Len(available_agents)) + 1]
    IN  IF available_agents = <<>> THEN Raised(counters)
        ELSE Routed(RoutingDecision(task_id, selected_agent, "round_robin",
                                    "round_robin",
                                    FirstThreeBut(available_agents, selected_agent)),
                    [c \in {"general"} |-> counter + 1])

\* the first available agent whose load is strictly below every earlier one;
\* an agent without an AgentLoad is passed over
RECURSIVE LeastLoaded(_, _, _, _)
LeastLoaded(names, loads, best, lowest) ==
    IF names = <<>> THEN best
    ELSE IF Head(names) \in DOMAIN loads
            /\ (best = NoAgent
                \/ loads[Head(names)].utilization_percentage < lowest)
         THEN LeastLoaded(Tail(names), loads, Head(names),
                          loads[Head(names)].utilization_percentage)
         ELSE LeastLoaded(Tail(names), loads, best, lowest)

route_with_least_loaded(counters, loads, ag, task_id) ==
    LET available_agents == get_available_agents(ag)
        found == LeastLoaded(available_agents, loads, NoAgent, 0)
        least_loaded_agent == IF found = NoAgent THEN available_agents[1] ELSE found
    IN  IF available_agents = <<>> THEN Raised(counters)
        ELSE Routed(RoutingDecision(task_id, least_loaded_agent, "least_loaded",
                                    "least_loaded",
                                    FirstThreeBut(available_agents,
                                                  least_loaded_agent)),
                    counters)

AgentNamesOf(assignments) ==
    [i \in 1..Len(assignments) |-> assignments[i].agent_name]

\* find_suitable_agents reads task.excluded_agents for each available agent
\* (task_coordinator.py:175): an object without that attribute raises
\* AttributeError there
LacksExcludedAgents(ag, task) ==
    get_available_agents(ag) # <<>> /\ "excluded_agents" \notin DOMAIN task

route_with_best_fit(counters, ag, task, task_id) ==
    LET candidate_assignments == find_suitable_agents(ag, task, 10)
        available_agents == get_available_agents(ag)
    IN  IF LacksExcludedAgents(ag, task) THEN Raised(counters)
        ELSE IF candidate_assignments = <<>>
        THEN IF available_agents # <<>>
             THEN Routed(RoutingDecision(task_id, available_agents[1], "best_fit",
                                         "fallback", <<>>),
                         counters)
             ELSE Raised(counters)
        ELSE Routed(RoutingDecision(
                        task_id, candidate_assignments[1].agent_name, "best_fit",
                        "capability_match",
                        AgentNamesOf(SubSeq(candidate_assignments, 2,
                                            Min(4, Len(candidate_assignments))))),
                    counters)

\* a RoutingRule; the lists are sets, a pattern is a keyword, and weight is
\* counted in halves (weight2 = 2 * weight)
RoutingRule(name, patterns, reqs, prios, pref, excl, cats, weight2) ==
    [name |-> name, task_patterns |-> patterns, capability_requirements |-> reqs,
     priority_levels |-> prios, preferred_agents |-> pref,
     excluded_agents |-> excl, agent_categories |-> cats, weight2 |-> weight2,
     enabled |-> TRUE]

\* _register_default_routing_rules: the six rules, in the order they are stored
DefaultRoutingRules ==
    << RoutingRule("Orchestration Priority",
                   {"coordination", "orchestration", "management", "breakdown"},
                   {"task_breakdown", "agent_routing", "dependency_management"},
                   {"critical", "high"},
                   {"@tech-lead-orchestrator", "@project-analyst"}, {}, {}, 10),
       RoutingRule("Code Quality Routing",
                   {"review", "quality", "security", "validation", "compliance"},
                   {"security_validation", "quality_assessment",
                    "standards_compliance"},
                   {}, {"@code-reviewer", "@performance-optimizer"}, {},
                   {"core_development"}, 8),
       RoutingRule("Backend Development Routing",
                   {"api", "backend", "database", "service", "async"},
                   {"api_design", "database_operations", "async_programming"},
                   {}, {"@api-architect", "@backend-developer"}, {},
                   {"universal_development"}, 7),
       RoutingRule("Framework Specialist Routing",
                   {"django", "laravel", "rails", "react", "vue"},
                   {}, {}, {}, {}, {"framework_specialists"}, 6),
       RoutingRule("Load Balancing", {"*"}, {}, {}, {}, {}, {}, 4),
       RoutingRule("Documentation and Analysis",
                   {"documentation", "analysis", "exploration", "architecture"},
                   {"technical_writing", "pattern_discovery",
                    "architectural_analysis"},
                   {}, {"@documentation-specialist", "@code-archaeologist"},
                   {}, {}, 6) >>

\* register_routing_rule: the rule is stored under its fresh rule_id
register_routing_rule(rules, rule) == Append(rules, rule)

CapabilityNames(agent) ==
    {agent.capabilities[i].name : i \in 1..Len(agent.capabilities)}

\* _evaluate_routing_rule up to the excluded_agents test of line 665
rule_match_score(rule, ag, task, agent_name) ==
    LET patterns ==
            10 * Cardinality(rule.task_patterns \cap {"*"})
            + 20 * Cardinality((rule.task_patterns \ {"*"}) \cap task.title)
        matching ==
            IF agent_name \in DOMAIN ag
            THEN rule.capability_requirements \cap CapabilityNames(ag[agent_name])
            ELSE {}
        capabilities ==
            IF matching = {} THEN 0
            ELSE (Cardinality(matching) * 30)
                     \div Cardinality(rule.capability_requirements)
        preferred == IF agent_name \in rule.preferred_agents THEN 40 ELSE 0
    IN  patterns + capabilities + preferred

\* _evaluate_routing_rule: an excluded agent sets the score back to 0 (line
\* 666); the category and the priority level are added after that
evaluate_routing_rule(rule, ag, task, agent_name) ==
    LET score == IF agent_name \in rule.excluded_agents THEN 0
                 ELSE rule_match_score(rule, ag, task, agent_name)
        category ==
            IF /\ agent_name \in DOMAIN ag
               /\ ag[agent_name].category \in rule.agent_categories
            THEN 25 ELSE 0
        priority == IF task.priority \in rule.priority_levels THEN 15 ELSE 0
    IN  score + category + priority

\* _route_with_best_fit, lines 405-415: the enabled rules that score more
\* than 0 for the best assignment; decision_factors holds twice the factor
applied_rules(rules, ag, task, agent_name) ==
    SelectSeq(rules, LAMBDA rule :
        rule.enabled /\ evaluate_routing_rule(rule, ag, task, agent_name) > 0)

decision_factors(rules, ag, task, agent_name) ==
    LET applied == applied_rules(rules, ag, task, agent_name)
    IN  [name \in {applied[i].name : i \in 1..Len(applied)} |->
            LET rule == CHOOSE r \in SeqToSet(applied) :
                            /\ r.name = name
                            /\ \A i, j \in 1..Len(applied) :
                                  (applied[i] = r /\ applied[j].name = name)
                                      => j <= i
            IN  evaluate_routing_rule(rule, ag, task, agent_name) * rule.weight2]

\* the state of _monitor_agent_loads: where the loop is, the number of calls
\* of _update_agent_loads so far (modulo 2), and the sleep that preceded the
\* current iteration
Monitor(pc, calls, woke_from) ==
    [pc |-> pc, calls |-> calls, woke_from |-> woke_from]

\* TaskCoordinator.get_agent_workload(agent_name)["active_tasks"]
active_workload(S, name) ==
    IF name \in DOMAIN S.agent_assignments
    THEN Len(SelectSeq(S.agent_assignments[name],
                       LAMBDA task_id : task_id \in S.active_tasks))
    ELSE 0

\* _update_agent_loads over the first n agents of the registry: an agent
\* without an AgentLoad is passed over
update_agent_loads(loads, S, n) ==
    [a \in DOMAIN loads |->
        IF \E i \in 1..n : RegistrationOrder(S.agents)[i] = a
        THEN AgentLoad((active_workload(S, a) * 100)
                           \div S.agents[a].max_concurrent_tasks)
        ELSE loads[a]]

\* the loop whose except clause lets the exception through
AfterRefreshMutant(m, raised) ==
    Monitor(IF raised THEN "ended" ELSE "sleep", 1 - m.calls, m.woke_from)

\* _monitor_agent_loads after the call of _update_agent_loads: asyncio.sleep(30),
\* or the except clause and asyncio.sleep(60)
after_refresh(m, raised) ==
    Monitor(IF raised THEN "backoff" ELSE "sleep", 1 - m.calls, m.woke_from)

\* load_history.pop() in place of pop(0): the newest sample is dropped
KeepLastMutant(history) ==
    IF Len(history) > HistoryLimit THEN SubSeq(history, 1, Len(history) - 1)
    ELSE history

\* `if len(agent_load.load_history) > 100: agent_load.load_history.pop(0)`
keep_last(history) ==
    IF Len(history) > HistoryLimit THEN Tail(history) ELSE history

\* the load_history lists after _update_agent_loads went over the first n
\* agents: the utilization just computed is appended, then the list is trimmed
update_load_history(history, loads, ag, n) ==
    [a \in DOMAIN history |->
        IF \E i \in 1..n : RegistrationOrder(ag)[i] = a
        THEN keep_last(Append(history[a], loads[a].utilization_percentage))
        ELSE history[a]]

\* every utilization computed by _update_agent_loads so far, per agent, in
\* the order it was computed (not a field of the program)
update_sampled(all, loads, ag, n) ==
    [a \in DOMAIN all |->
        IF \E i \in 1..n : RegistrationOrder(ag)[i] = a
        THEN Append(all[a], loads[a].utilization_percentage)
        ELSE all[a]]

\* max(..., key=reliability_score): the first agent with the highest score
MostReliable(names, ag) ==
    LET i == CHOOSE k \in 1..Len(names) :
                 /\ \A j \in 1..Len(names) :
                       ag[names[j]].reliability_score <= ag[names[k]].reliability_score
                 /\ \A j \in 1..(k - 1) :
                       ag[names[j]].reliability_score < ag[names[k]].reliability_score
    IN  names[i]

route_with_priority(counters, ag, task, task_id) ==
    LET available_priority_agents ==
            SelectSeq(RegistrationOrder(ag), LAMBDA n :
                /\ ag[n].priority_level = task.priority
                /\ Contains(get_available_agents(ag), n))
        selected_agent == MostReliable(available_priority_agents, ag)
    IN  IF available_priority_agents = <<>>
        THEN route_with_best_fit(counters, ag, task, task_id)
        ELSE Routed(RoutingDecision(task_id, selected_agent, "priority_based",
                                    "priority_based",
                                    FirstThreeBut(available_priority_agents,
                                                  selected_agent)),
                    counters)

\* the weighted score of _route_with_capability_weighting as a fraction with
\* every term times 10: 0.3 and 0.2 become 3 and 2
MatchedRequirements(agent, task) ==
    SelectSeq(task.requirements,
              LAMBDA r : matching_proficiency(agent, r) > 0)

WeightedNum(agent, task, loads) ==
    LET matched == MatchedRequirements(agent, task)
    IN  SumSeq([i \in 1..Len(matched) |->
                   matching_proficiency(agent, matched[i]) * 10 * matched[i].weight
                     * 10])
          + (IF agent.name \in DOMAIN loads
             THEN Max(0, 100 - loads[agent.name].utilization_percentage) * 3
             ELSE 0)
          + agent.reliability_score * 2

WeightedDen(agent, task, loads) ==
    LET matched == MatchedRequirements(agent, task)
    IN  SumSeq([i \in 1..Len(matched) |-> matched[i].weight * 10])
          + (IF agent.name \in DOMAIN loads THEN 3 ELSE 0)
          + 2

\* agent x scores at least as much as agent y
WeightedAtLeast(x, y, task, loads) ==
    WeightedNum(x, task, loads) * WeightedDen(y, task, loads)
        >= WeightedNum(y, task, loads) * WeightedDen(x, task, loads)

\* max(agent_scores.keys(), key=...): the first key with the highest score
BestWeighted(names, ag, task, loads) ==
    LET i == CHOOSE k \in 1..Len(names) :
                 /\ \A j \in 1..Len(names) :
                       WeightedAtLeast(ag[names[k]], ag[names[j]], task, loads)
                 /\ \A j \in 1..(k - 1) :
                       ~WeightedAtLeast(ag[names[j]], ag[names[k]], task, loads)
    IN  names[i]

\* sorted(..., reverse=True) is stable
RECURSIVE SortByWeight(_, _, _, _)
SortByWeight(names, ag, task, loads) ==
    IF names = <<>> THEN <<>>
    ELSE LET best == BestWeighted(names, ag, task, loads)
         IN  <<best>> \o SortByWeight(SelectSeq(names, LAMBDA n : n # best),
                                      ag, task, loads)

route_with_capability_weighting(counters, loads, ag, task, task_id) ==
    LET available_agents == get_available_agents(ag)
        ranked == SortByWeight(available_agents, ag, task, loads)
    IN  IF available_agents = <<>> THEN Raised(counters)
        ELSE Routed(RoutingDecision(task_id,
                                    BestWeighted(available_agents, ag, task, loads),
                                    "capability_weighted", "capability_weighted",
                                    SubSeq(ranked, 2, Min(4, Len(ranked)))),
                    counters)

\* routing_success_rates is never written: every lookup gives its default
BaselineSuccessRate == 80
OtherSuccessRate == 70
ImprovementThreshold == 10

\* the loop over the registry: another available agent replaces the best one
\* when its success rate exceeds the best by more than the threshold
RECURSIVE Substitute(_, _, _, _)
Substitute(names, ag, best_agent, best_success_rate) ==
    IF names = <<>> THEN best_agent
    ELSE IF Head(names) # best_agent
            /\ OtherSuccessRate > best_success_rate + ImprovementThreshold
            /\ ag[Head(names)].status = "available"
         THEN Substitute(Tail(names), ag, Head(names), OtherSuccessRate)
         ELSE Substitute(Tail(names), ag, best_agent, best_success_rate)

route_with_learning_optimization(counters, ag, task, task_id) ==
    LET baseline == route_with_best_fit(counters, ag, task, task_id)
        best_agent == Substitute(RegistrationOrder(ag), ag,
                                 baseline.decision.selected_agent,
                                 BaselineSuccessRate)
    IN  IF baseline.result = "raise" THEN baseline
        ELSE Routed(RoutingDecision(
                        task_id, best_agent, "learning_optimized",
                        "learning_optimized",
                        IF best_agent # baseline.decision.selected_agent
                        THEN <<baseline.decision.selected_agent>> ELSE <<>>),
                    counters)

Router ==
    [round_robin_counters |-> round_robin_counters,
     routing_decisions |-> routing_decisions, agent_loads |-> agent_loads]

SetRouter(R) ==
    /\ round_robin_counters' = R.round_robin_counters
    /\ routing_decisions' = R.routing_decisions
    /\ agent_loads' = R.agent_loads

apply_strategy(R, ag, task, task_id, strategy) ==
    IF strategy = "round_robin"
    THEN route_with_round_robin(R.round_robin_counters, ag, task_id)
    ELSE IF strategy = "least_loaded"
    THEN route_with_least_loaded(R.round_robin_counters, R.agent_loads, ag, task_id)
    ELSE IF strategy = "priority_based"
    THEN route_with_priority(R.round_robin_counters, ag, task, task_id)
    ELSE IF strategy = "capability_weighted"
    THEN route_with_capability_weighting(R.round_robin_counters, R.agent_loads,
                                         ag, task, task_id)
    ELSE IF strategy = "learning_optimized"
    THEN route_with_learning_optimization(R.round_robin_counters, ag, task, task_id)
    ELSE route_with_best_fit(R.round_robin_counters, ag, task, task_id)

RouteRet(R, r) == [R |-> R, result |-> r.result, decision |-> r.decision]

\* route_task: a forced decision returns before the trail is written; a
\* strategy that raises leaves the manager as it was
routed(R, r) ==
    IF r.result = "raise" THEN RouteRet(R, r)
    ELSE RouteRet([R EXCEPT !.round_robin_counters = r.counters,
                            !.routing_decisions = Append(@, r.decision)],
                  r)

route_task(R, ag, task, task_id, strategy, force_agent) ==
    IF force_agent # NoAgent /\ force_agent \in DOMAIN ag
    THEN RouteRet(R, Routed(RoutingDecision(task_id, force_agent, strategy,
                                            "forced_assignment", <<>>),
                            R.round_robin_counters))
    ELSE routed(R, apply_strategy(R, ag, task, task_id, strategy))

\* ------------------------------------------------ AgentCoordinationService
\* a CoordinationRequest has no task_id, requirements or excluded_agents
CoordinationRequest(type, priority, capabilities, preferred) ==
    [coordination_type |-> type, priority |-> priority,
     required_capabilities |-> capabilities, preferred_agents |-> preferred]

CoordinationRequests ==
    { CoordinationRequest("task", "medium", <<>>, {}),
      CoordinationRequest("task", "low", <<"docs">>, {"w1"}),
      CoordinationRequest("multi_agent", "medium", <<>>, {}),
      CoordinationRequest("multi_agent", "high", <<"db_ops", "ml">>, {}),
      CoordinationRequest("reactive", "medium", <<>>, {}),
      CoordinationRequest("workflow", "medium", <<>>, {}) }

CoordinationResponse(status, assigned, task_ids) ==
    [status |-> status, assigned_agents |-> assigned, task_ids |-> task_ids]

\* the service, the coordinator and the routing manager after a call
Coordinated(S, R, coordinations, result, response) ==
    [S |-> S, R |-> R, active_coordinations |-> coordinations,
     result |-> result, response |-> response]

\* TaskRequirement(capability=cap): minimum_proficiency 1, required, weight 1
RequestedTask(request, selected_agent) ==
    TaskInput(request.priority,
              [i \in 1..Len(request.required_capabilities) |->
                  Req(request.required_capabilities[i], 1, TRUE, 1)],
              {selected_agent}, {}, <<>>)

\* _coordinate_task after route_task returned routing_decision
task_routed(S, R, coordinations, request, routing_decision) ==
    IF routing_decision.result = "raise"
    THEN Coordinated(S, R, coordinations, "raise",
                     CoordinationResponse("none", <<>>, <<>>))
    ELSE IF routing_decision.decision.selected_agent = NoAgent
    THEN Coordinated(S, routing_decision.R, coordinations, "response",
                     CoordinationResponse("failed", <<>>, <<>>))
    ELSE Coordinated(
             create_task(S, RequestedTask(request,
                                          routing_decision.decision.selected_agent)),
             routing_decision.R, coordinations, "response",
             CoordinationResponse("accepted",
                                  <<routing_decision.decision.selected_agent>>,
                                  <<Len(S.tasks) + 1>>))

\* the request itself is handed to route_task, with the default strategy
coordinate_task(S, R, coordinations, request) ==
    task_routed(S, R, coordinations, request,
                route_task(R, S.agents, request, 0, "best_fit", NoAgent))

\* _decompose_multi_agent_request: one subtask per capability, or the request
\* itself when it names none
decompose_multi_agent_request(request) ==
    IF request.required_capabilities = <<>> THEN <<request>>
    ELSE [i \in 1..Len(request.required_capabilities) |->
             CoordinationRequest("task", request.priority,
                                 <<request.required_capabilities[i]>>, {})]

\* the loop over the subtasks: an exception of route_task leaves the loop,
\* the tasks created before it stay
RECURSIVE coordinate_subtasks(_, _, _, _, _, _)
RECURSIVE subtask_routed(_, _, _, _, _, _, _)
subtask_routed(S, R, coordinations, subtasks, assigned, task_ids, decision) ==
    IF decision.result = "raise"
    THEN Coordinated(S, R, coordinations, "raise",
                     CoordinationResponse("none", <<>>, <<>>))
    ELSE IF decision.decision.selected_agent = NoAgent
    THEN coordinate_subtasks(S, decision.R, coordinations,
                             Tail(subtasks), assigned, task_ids)
    ELSE coordinate_subtasks(
             create_task(S, RequestedTask(Head(subtasks),
                                          decision.decision.selected_agent)),
             decision.R, coordinations, Tail(subtasks),
             Append(assigned, decision.decision.selected_agent),
             Append(task_ids, Len(S.tasks) + 1))

coordinate_subtasks(S, R, coordinations, subtasks, assigned, task_ids) ==
    IF subtasks = <<>>
    THEN Coordinated(S, R, coordinations, "response",
                     CoordinationResponse("accepted", assigned, task_ids))
    ELSE subtask_routed(S, R, coordinations, subtasks, assigned, task_ids,
                        route_task(R, S.agents, Head(subtasks), 0, "best_fit",
                                   NoAgent))

coordinate_multi_agent(S, R, coordinations, request) ==
    coordinate_subtasks(S, R, coordinations,
                        decompose_multi_agent_request(request), <<>>, <<>>)

coordinate_reactive(S, R, coordinations, request) ==
    Coordinated(S, R, Append(coordinations, "monitoring"), "response",
                CoordinationResponse("monitoring", <<>>, <<>>))

dispatch_coordination(S, R, coordinations, request) ==
    IF request.coordination_type = "multi_agent"
    THEN coordinate_multi_agent(S, R, coordinations, request)
    ELSE IF request.coordination_type = "reactive"
    THEN coordinate_reactive(S, R, coordinations, request)
    ELSE coordinate_task(S, R, coordinations, request)

\* coordinate_agents without its except clause
CaughtMutant(c) == c

\* coordinate_agents of a service built with its four components: every
\* exception of the delegate becomes a failed response
caught(c) ==
    IF c.result = "raise"
    THEN [c EXCEPT !.result = "response",
                   !.response = CoordinationResponse("failed", <<>>, <<>>)]
    ELSE c

coordinate_agents(S, R, coordinations, request) ==
    caught(dispatch_coordination(S, R, coordinations, request))

\* ----------------------------------------------------------------- actions
TaskIds == 1..MaxTasks

CoordInit ==
    /\ agents = RegisteredAgents
    /\ tasks = <<>>
    /\ task_queue = <<>>
    /\ active_tasks = {}
    /\ agent_assignments = <<>>
    /\ task_history = <<>>
    /\ last = Call("init", 0, UnknownAgent, FALSE, "none")
    /\ workflow_definitions = <<>>
    /\ executions = <<>>

CreateTask ==
    /\ Len(tasks) < MaxTasks
    /\ \E in \in TaskInputs :
          /\ SetState(create_task(State, in))
          /\ last' = Call("create_task", Len(tasks) + 1, UnknownAgent, FALSE, "task")
    /\ UNCHANGED <<wvars, rvars, gvars>>

AssignTask ==
    \E t \in TaskIds, a \in AgentNames :
        LET r == assign_task(State, t, a)
        IN  /\ a \in DOMAIN agent_assignments
                  => Len(agent_assignments[a]) < MaxAssignments
            /\ SetState(r.S)
            /\ last' = Call("assign_task", t, a, FALSE, r.result)
            /\ UNCHANGED <<wvars, rvars, gvars>>

StartTask ==
    \E t \in TaskIds, a \in Agents :
        LET r == start_task(State, t, a)
        IN  /\ SetState(r.S)
            /\ last' = Call("start_task", t, a, FALSE, r.result)
            /\ UNCHANGED <<wvars, rvars, gvars>>

CompleteTask ==
    \E t \in TaskIds, a \in Agents :
        LET r == complete_task(State, t, a)
        IN  /\ SetState(r.S)
            /\ last' = Call("complete_task", t, a, FALSE, r.result)
            /\ UNCHANGED <<wvars, rvars, gvars>>

FailTask ==
    \E t \in TaskIds, a \in Agents, retry \in BOOLEAN :
        LET r == fail_task(State, t, a, retry)
        IN  /\ SetState(r.S)
            /\ last' = Call("fail_task", t, a, retry, r.result)
            /\ UNCHANGED <<wvars, rvars, gvars>>

ProcessTaskQueue ==
    /\ SetState(process_task_queue(State))
    /\ last' = Call("process_task_queue", 0, UnknownAgent, FALSE, "none")
    /\ UNCHANGED <<wvars, rvars, gvars>>

\* RoutingManager.initialize and the empty service
RouterInit ==
    /\ round_robin_counters = <<>>
    /\ routing_decisions = <<>>
    /\ agent_loads = initialize_agent_loads(agents)
    /\ active_coordinations = <<>>
    /\ routing_rules = DefaultRoutingRules
    /\ monitor = Monitor("refresh", 0, "start")
    /\ load_history = [a \in DOMAIN agents |-> <<>>]
    /\ sampled = [a \in DOMAIN agents |-> <<>>]

\* AgentRegistry.initialize has run: the indexes are built
RegistryInit ==
    /\ initialized = TRUE
    /\ indexes = build_indexes(agents)

Init == CoordInit /\ RouterInit /\ RegistryInit

Next ==
    \/ CreateTask
    \/ AssignTask
    \/ StartTask
    \/ CompleteTask
    \/ FailTask
    \/ ProcessTaskQueue

Spec == Init /\ [][Next]_vars

\* ------------------------------------------------ workflow engine actions
\* a create_task request that arrives while workflows run
BackgroundTask ==
    /\ Len(tasks) < MaxBackgroundTasks
    /\ \E in \in TaskInputs :
          /\ SetState(create_task(State, in))
          /\ last' = Call("create_task", Len(tasks) + 1, UnknownAgent, FALSE, "task")
    /\ UNCHANGED <<wvars, rvars, gvars>>

CreateWorkflowFromTemplate ==
    /\ Len(workflow_definitions) < MaxWorkflows
    /\ \E tpl \in TemplateIds :
          workflow_definitions' =
              Append(workflow_definitions,
                     WorkflowDefinition(Len(workflow_definitions) + 1, tpl))
    /\ UNCHANGED <<cvars, last, executions, rvars, gvars>>

ExecuteWorkflow ==
    /\ Len(executions) < MaxExecutions
    /\ \E w \in 1..Len(workflow_definitions) :
          /\ executions' = Append(executions, WorkflowExecution(w))
          /\ workflow_definitions' =
                [workflow_definitions EXCEPT ![w].status = "in_progress"]
    /\ UNCHANGED <<cvars, last, rvars, gvars>>

Running(e, types, pcs) ==
    /\ executions[e].pc \in pcs
    /\ workflow_definitions[executions[e].workflow_id].workflow_type \in types
    /\ DriverRuns(executions[e])

SetEngine(e, r) ==
    /\ workflow_definitions' =
          [workflow_definitions EXCEPT ![executions[e].workflow_id] = r.wf]
    /\ executions' = [executions EXCEPT ![e] = r.ex]
    /\ SetState(r.S)
    /\ UNCHANGED <<last, rvars, gvars>>

WorkflowOf(e) == workflow_definitions[executions[e].workflow_id]

SequentialStep ==
    \E e \in 1..Len(executions) :
        /\ Running(e, {"sequential", "reactive"}, {"run"})
        /\ LET r == sequential_iteration(WorkflowOf(e), executions[e], State,
                                             executions[e].workflow_id)
           IN  SetEngine(e, r)

ConditionalStep ==
    \E e \in 1..Len(executions) :
        /\ Running(e, {"conditional"}, {"run"})
        /\ LET r == conditional_iteration(WorkflowOf(e), executions[e], State,
                                              executions[e].workflow_id)
           IN  SetEngine(e, r)

ParallelSpawn ==
    \E e \in 1..Len(executions) :
        /\ Running(e, {"parallel"}, {"run"})
        /\ LET r == Engine(WorkflowOf(e),
                               parallel_spawn(WorkflowOf(e), executions[e]), State)
           IN  SetEngine(e, r)

ParallelGathered ==
    \E e \in 1..Len(executions) :
        /\ Running(e, {"parallel"}, {"gather"})
        /\ LET m == process_results(WorkflowOf(e), executions[e], 1)
               r == Engine(m.wf, [m.ex EXCEPT !.pc = "complete",
                                              !.suspended = FALSE], State)
           IN  SetEngine(e, r)

PipelineStep ==
    \E e \in 1..Len(executions) :
        /\ Running(e, {"pipeline"}, {"run"})
        /\ LET r == Engine(WorkflowOf(e),
                               pipeline_iteration(WorkflowOf(e), executions[e]),
                               State)
           IN  SetEngine(e, r)

PipelineWake ==
    \E e \in 1..Len(executions) :
        /\ Running(e, {"pipeline"}, {"sleep"})
        /\ LET r == Engine(WorkflowOf(e),
                               pipeline_spawn(WorkflowOf(e), executions[e]), State)
           IN  SetEngine(e, r)

PipelineAwaited ==
    \E e \in 1..Len(executions) :
        /\ Running(e, {"pipeline"}, {"await"})
        /\ LET r == Engine(WorkflowOf(e),
                               pipeline_awaited(WorkflowOf(e), executions[e]),
                               State)
           IN  SetEngine(e, r)

PipelineDrain ==
    \E e \in 1..Len(executions) :
        /\ Running(e, {"pipeline"}, {"drain"})
        /\ pipeline_drain(WorkflowOf(e), executions[e]) # executions[e]
        /\ LET r == Engine(WorkflowOf(e),
                               pipeline_drain(WorkflowOf(e), executions[e]), State)
           IN  SetEngine(e, r)

\* the event loop runs the step task that was scheduled first
RunStepTask ==
    \E e \in 1..Len(executions) :
        /\ executions[e].suspended
        /\ HasReady(executions[e])
        /\ LET r == execute_step_with_tracking(WorkflowOf(e), executions[e],
                            State, executions[e].workflow_id,
                            FirstReady(executions[e]))
           IN  SetEngine(e, r)

\* _complete_workflow: the status, then the execution leaves active_workflows
complete_workflow(wf, ex) ==
    Marked([wf EXCEPT !.status = "completed"],
           [ex EXCEPT !.pc = "done", !.active = FALSE])

\* _fail_workflow that leaves the execution in active_workflows
FailWorkflowMutant(wf, ex) ==
    Marked([wf EXCEPT !.status = "failed"], [ex EXCEPT !.pc = "done"])

\* _fail_workflow: the status, then the execution leaves active_workflows
fail_workflow(wf, ex) ==
    Marked([wf EXCEPT !.status = "failed"],
           [ex EXCEPT !.pc = "done", !.active = FALSE])

CompleteWorkflow ==
    \E e \in 1..Len(executions) :
        /\ executions[e].pc = "complete"
        /\ \E m \in {complete_workflow(WorkflowOf(e), executions[e])} :
              SetEngine(e, Engine(m.wf, m.ex, State))

FailWorkflow ==
    \E e \in 1..Len(executions) :
        /\ executions[e].pc = "fail"
        /\ \E m \in {fail_workflow(WorkflowOf(e), executions[e])} :
              SetEngine(e, Engine(m.wf, m.ex, State))

NextWF ==
    \/ BackgroundTask
    \/ CreateWorkflowFromTemplate
    \/ ExecuteWorkflow
    \/ SequentialStep
    \/ ConditionalStep
    \/ ParallelSpawn
    \/ ParallelGathered
    \/ PipelineStep
    \/ PipelineWake
    \/ PipelineAwaited
    \/ PipelineDrain
    \/ RunStepTask
    \/ CompleteWorkflow
    \/ FailWorkflow

SpecWF == Init /\ [][NextWF]_vars

\* the event loop runs every coroutine that can run: the driver of an
\* execution (created by asyncio.create_task in execute_workflow) and the
\* step tasks it spawned
EngineRuns ==
    \/ SequentialStep
    \/ ConditionalStep
    \/ ParallelSpawn
    \/ ParallelGathered
    \/ PipelineStep
    \/ PipelineWake
    \/ PipelineAwaited
    \/ PipelineDrain
    \/ RunStepTask
    \/ CompleteWorkflow
    \/ FailWorkflow

SpecWFLive == Init /\ [][NextWF]_vars /\ WF_vars(EngineRuns)

\* a minute passes while an execution is running (execution_start_time is
\* compared with the clock); minutes past timeout_minutes are not counted
Tick ==
    /\ \E e \in 1..Len(executions) :
          /\ executions[e].active
          /\ executions[e].elapsed < WorkflowOf(e).timeout_minutes
          /\ executions' = [executions EXCEPT ![e].elapsed = @ + 1]
    /\ UNCHANGED <<cvars, last, workflow_definitions, rvars, gvars>>

NextT ==
    \/ NextWF
    \/ Tick

SpecT == Init /\ [][NextT]_vars

\* ------------------------------------- routing and coordination actions
InitR ==
    /\ agents \in RoutedRegistries
    /\ tasks = <<>>
    /\ task_queue = <<>>
    /\ active_tasks = {}
    /\ agent_assignments = <<>>
    /\ task_history = <<>>
    /\ last = Call("init", 0, UnknownAgent, FALSE, "none")
    /\ workflow_definitions = <<>>
    /\ executions = <<>>
    /\ RouterInit
    /\ RegistryInit

RouteCall(t, strategy, force_agent) ==
    [task_id |-> t, strategy |-> strategy, force_agent |-> force_agent]

\* the route_task calls of the model
RouteCalls ==
    { RouteCall(1, "round_robin", NoAgent),
      RouteCall(2, "round_robin", NoAgent),
      RouteCall(1, "least_loaded", NoAgent),
      RouteCall(1, "best_fit", NoAgent),
      RouteCall(2, "best_fit", NoAgent),
      RouteCall(3, "best_fit", NoAgent),
      RouteCall(2, "priority_based", NoAgent),
      RouteCall(2, "capability_weighted", NoAgent),
      RouteCall(3, "learning_optimized", NoAgent),
      RouteCall(1, "best_fit", "w1"),
      RouteCall(1, "round_robin", UnknownAgent) }

RouteTask ==
    /\ Len(routing_decisions) < MaxRoutes
    /\ \E call \in RouteCalls :
      \E r \in {route_task(Router, agents, RoutedTasks[call.task_id],
                            call.task_id, call.strategy, call.force_agent)} :
          /\ SetRouter(r.R)
          /\ last' = [op |-> "route_task", result |-> r.result,
                      decision |-> r.decision]
    /\ UNCHANGED <<cvars, wvars, active_coordinations, gvars>>

\* an agent goes offline or comes back
UpdateAgentStatus ==
    /\ \E a \in DOMAIN agents, status \in {"available", "offline"} :
          agents' = update_agent_status(agents, a, status)
    /\ UNCHANGED <<tasks, task_queue, active_tasks, agent_assignments,
                   task_history, last, wvars, rvars, gvars>>

CoordinateAgents ==
    /\ Len(active_coordinations) < MaxCoordinations
    /\ \E request \in CoordinationRequests :
      \E c \in {coordinate_agents(State, Router, active_coordinations, request)} :
          /\ Len(c.S.tasks) <= MaxTasks
          /\ SetState(c.S)
          /\ SetRouter(c.R)
          /\ active_coordinations' = c.active_coordinations
          /\ last' = [op |-> "coordinate_agents", request |-> request,
                      result |-> c.result, response |-> c.response]
    /\ UNCHANGED <<wvars, gvars>>

NextR ==
    \/ RouteTask
    \/ UpdateAgentStatus
    \/ CoordinateAgents

SpecR == InitR /\ [][NextR]_vars

\* successive route_task calls with the round-robin strategy
RoundRobinTask ==
    /\ Len(routing_decisions) < MaxRoundRobin
    /\ \E t \in {1, 2} :
      \E r \in {route_task(Router, agents, RoutedTasks[t], t, "round_robin",
                            NoAgent)} :
          /\ SetRouter(r.R)
          /\ last' = [op |-> "route_task", result |-> r.result,
                      decision |-> r.decision]
    /\ UNCHANGED <<cvars, wvars, active_coordinations, gvars>>

NextRR ==
    \/ RoundRobinTask
    \/ UpdateAgentStatus

SpecRR == InitR /\ [][NextRR]_vars

\* ------------------------------------------------------ registry actions
\* the registry as constructed: no agent, empty indexes, not initialized
InitRegistry ==
    /\ agents = <<>>
    /\ indexes = [capabilities_index |-> <<>>, category_index |-> <<>>]
    /\ initialized = FALSE
    /\ tasks = <<>>
    /\ task_queue = <<>>
    /\ active_tasks = {}
    /\ agent_assignments = <<>>
    /\ task_history = <<>>
    /\ last = [op |-> "init"]
    /\ workflow_definitions = <<>>
    /\ executions = <<>>
    /\ round_robin_counters = <<>>
    /\ routing_decisions = <<>>
    /\ agent_loads = <<>>
    /\ active_coordinations = <<>>
    /\ routing_rules = <<>>
    /\ monitor = Monitor("refresh", 0, "start")
    /\ load_history = <<>>
    /\ sampled = <<>>

\* the profiles handed to register_agent: new agents, and agents that are
\* registered again with another category and other capabilities
RegisteredProfiles ==
    { RoutedProfile("w1"), RoutedProfile("w2"), RoutedProfile("w3"),
      AgentProfile("w1", "framework_specialists", <<Cap("docs", 5)>>, "low", 50),
      AgentProfile("a1", "orchestration", <<Cap("ml", 5)>>, "medium", 50) }

RECURSIVE register_all(_, _)
register_all(ag, names) ==
    IF names = <<>> THEN ag
    ELSE register_all(register_agent(ag, RegisteredAgents[Head(names)]), Tail(names))

\* initialize: once, the built-in agents are registered and the indexes built
Initialize ==
    /\ IF initialized
       THEN UNCHANGED <<agents, indexes, initialized>>
       ELSE /\ agents' = register_all(agents, AgentOrder)
            /\ indexes' = build_indexes(agents')
            /\ initialized' = TRUE
    /\ last' = [op |-> "initialize"]
    /\ UNCHANGED <<tasks, task_queue, active_tasks, agent_assignments,
                   task_history, wvars, rvars, routing_rules, monitor,
                   load_history, sampled>>

RegisterAgent ==
    /\ \E profile \in RegisteredProfiles :
          /\ agents' = register_agent(agents, profile)
          /\ last' = [op |-> "register_agent", profile |-> profile,
                      initialized |-> initialized]
    /\ UNCHANGED <<tasks, task_queue, active_tasks, agent_assignments,
                   task_history, wvars, rvars, gvars>>

NextRegistry == Initialize \/ RegisterAgent

SpecRegistry == InitRegistry /\ [][NextRegistry]_vars

\* ------------------------------------------------------- scoring actions
\* reliability_score is a percentage of the agent's metrics
ReliabilityScores == {0, 50, 90, 100}

\* the states update_agent_status can leave an agent in
AgentStatuses ==
    { [status |-> "available", workload_percentage |-> 0],
      [status |-> "busy", workload_percentage |-> 25],
      [status |-> "busy", workload_percentage |-> 100],
      [status |-> "offline", workload_percentage |-> 100] }

\* the registries the scores are asked about: the built-in agents, each in
\* any of its states and with a low or a middling reliability
ScoredRegistries ==
    { [a \in Agents |->
          [RegisteredAgents[a] EXCEPT
              !.status = st[a].status,
              !.workload_percentage = st[a].workload_percentage,
              !.reliability_score = rel[a]]] :
        st \in [Agents -> AgentStatuses], rel \in [Agents -> {0, 50}] }

ScoredTasks == {TaskDefinition(in) : in \in TaskInputs}

\* a registry and the task the calls are about
InitScore ==
    /\ agents \in ScoredRegistries
    /\ last \in {[op |-> "init", task |-> task] : task \in ScoredTasks}
    /\ tasks = <<>>
    /\ task_queue = <<>>
    /\ active_tasks = {}
    /\ agent_assignments = <<>>
    /\ task_history = <<>>
    /\ workflow_definitions = <<>>
    /\ executions = <<>>
    /\ RouterInit
    /\ RegistryInit

\* one call of _calculate_assignment_score(agent, task)
CalculateAssignmentScore ==
    /\ \E a \in DOMAIN agents :
          last' = [op |-> "calculate_assignment_score", task |-> last.task,
                   agent |-> agents[a],
                   score |-> calculate_assignment_score(agents[a], last.task)]
    /\ UNCHANGED <<cvars, wvars, rvars, gvars>>

\* one call of find_suitable_agents(task, limit)
FindSuitableAgents ==
    /\ \E limit \in 1..MaxLimit :
          last' = [op |-> "find_suitable_agents", task |-> last.task,
                   limit |-> limit,
                   suitable_agents |->
                       find_suitable_agents(agents, last.task, limit)]
    /\ UNCHANGED <<cvars, wvars, rvars, gvars>>

NextScore == CalculateAssignmentScore \/ FindSuitableAgents

SpecScore == InitScore /\ [][NextScore]_vars

\* -------------------------------------------------- routing rule actions
\* the rules handed to register_routing_rule: each excludes an agent
RuleInputs ==
    { RoutingRule("Spare w1", {"*"}, {"db_ops"}, {}, {"w1"}, {"w1"}, {}, 2),
      RoutingRule("Core development", {"api"}, {}, {}, {}, {"w1"},
                  {"core_development"}, 2),
      RoutingRule("Urgent", {}, {}, {"critical"}, {"w2"}, {"w2"}, {}, 4) }

\* the tasks of the routing scenarios, with the keywords of their titles
TitleOf(task_id) == <<{"api"}, {"review"}, {}>>[task_id]

TitledTask(task_id) ==
    [f \in DOMAIN RoutedTasks[task_id] \cup {"title"} |->
        IF f = "title" THEN TitleOf(task_id) ELSE RoutedTasks[task_id][f]]

RegisterRoutingRule ==
    /\ Len(routing_rules) < Len(DefaultRoutingRules) + MaxRules
    /\ \E rule \in RuleInputs :
          routing_rules' = register_routing_rule(routing_rules, rule)
    /\ UNCHANGED <<cvars, last, wvars, rvars, indexes, initialized, monitor,
                   load_history, sampled>>

\* one call of _evaluate_routing_rule(rule, task, agent_name)
EvaluateRoutingRule ==
    /\ \E i \in 1..Len(routing_rules), t \in 1..Len(RoutedTasks),
          a \in DOMAIN agents :
          last' = [op |-> "evaluate_routing_rule", rule |-> routing_rules[i],
                   task_id |-> t, agent_name |-> a,
                   score |-> evaluate_routing_rule(routing_rules[i], agents,
                                                   TitledTask(t), a)]
    /\ UNCHANGED <<cvars, wvars, rvars, gvars>>

\* _route_with_best_fit for a task that has a candidate: the rules are applied
\* to the best assignment
BestFitRules ==
    /\ \E t \in 1..Len(RoutedTasks) :
        \E candidates \in {find_suitable_agents(agents, TitledTask(t), 10)} :
          /\ candidates # <<>>
          /\ last' = [op |-> "route_with_best_fit", task_id |-> t,
                      selected_agent |-> candidates[1].agent_name,
                      applied_rules |->
                          [i \in 1..Len(applied_rules(routing_rules, agents,
                               TitledTask(t), candidates[1].agent_name)) |->
                              applied_rules(routing_rules, agents, TitledTask(t),
                                            candidates[1].agent_name)[i].name],
                      decision_factors |->
                          decision_factors(routing_rules, agents, TitledTask(t),
                                           candidates[1].agent_name)]
    /\ UNCHANGED <<cvars, wvars, rvars, gvars>>

NextRules == RegisterRoutingRule \/ EvaluateRoutingRule \/ BestFitRules

SpecRules == InitR /\ [][NextRules]_vars

\* ---------------------------------------------------- load monitor actions
\* one call of _update_agent_loads by the monitor: it returns, or an
\* exception is raised at some agent, after the agents before it were updated
\* (the utilization only: the load histories are followed in SpecLoads)
UpdateAgentLoads ==
    /\ monitor.pc = "refresh"
    /\ \/ /\ agent_loads' = update_agent_loads(agent_loads, State,
                                                Cardinality(DOMAIN agents))
          /\ monitor' = after_refresh(monitor, FALSE)
       \/ \E k \in 1..Cardinality(DOMAIN agents) :
             /\ agent_loads' = update_agent_loads(agent_loads, State, k - 1)
             /\ monitor' = after_refresh(monitor, TRUE)
    /\ UNCHANGED <<cvars, last, wvars, round_robin_counters, routing_decisions,
                   active_coordinations, indexes, initialized, routing_rules,
                   load_history, sampled>>

\* asyncio.sleep(30) is over
SleepEnds ==
    /\ monitor.pc = "sleep"
    /\ monitor' = Monitor("refresh", monitor.calls, "sleep")
    /\ UNCHANGED <<cvars, last, wvars, rvars, indexes, initialized, routing_rules,
                   load_history, sampled>>

\* asyncio.sleep(60) is over
BackOffEnds ==
    /\ monitor.pc = "backoff"
    /\ monitor' = Monitor("refresh", monitor.calls, "backoff")
    /\ UNCHANGED <<cvars, last, wvars, rvars, indexes, initialized, routing_rules,
                   load_history, sampled>>

MonitorRuns == UpdateAgentLoads \/ SleepEnds \/ BackOffEnds

NextMonitor == CreateTask \/ UpdateAgentLoads \/ SleepEnds \/ BackOffEnds

\* the event loop runs the monitor task whenever its sleep is over
SpecMonitor == Init /\ [][NextMonitor]_vars /\ WF_vars(MonitorRuns)

\* ------------------------------------------------- load history actions
\* AgentProfile.max_concurrent_tasks of the registered agents (ge=1, le=10)
Capacities == {1, 2}

\* the refreshes made before the first task arrives: none, or so many that
\* the histories are two samples short of the limit
IdleRefreshes == {0, HistoryLimit - 2}

\* the create_task request of the load scenarios: any agent suits it
LoadTaskInput == TaskInput("medium", <<>>, {}, {}, <<>>)

\* the router and its monitor after `idle` refreshes that found no task: every
\* sample is 0, the monitor is about to call _update_agent_loads again
InitLoads ==
    /\ \E c \in Capacities :
          agents = [a \in Agents |->
                       [RegisteredAgents[a] EXCEPT !.max_concurrent_tasks = c]]
    /\ tasks = <<>>
    /\ task_queue = <<>>
    /\ active_tasks = {}
    /\ agent_assignments = <<>>
    /\ task_history = <<>>
    /\ last = Call("init", 0, UnknownAgent, FALSE, "none")
    /\ workflow_definitions = <<>>
    /\ executions = <<>>
    /\ round_robin_counters = <<>>
    /\ routing_decisions = <<>>
    /\ agent_loads = initialize_agent_loads(agents)
    /\ active_coordinations = <<>>
    /\ routing_rules = DefaultRoutingRules
    /\ RegistryInit
    /\ \E idle \in IdleRefreshes :
          /\ monitor = Monitor("refresh", idle % 2,
                               IF idle = 0 THEN "start" ELSE "sleep")
          /\ load_history = [a \in Agents |-> [i \in 1..idle |-> 0]]
          /\ sampled = [a \in Agents |-> [i \in 1..idle |-> 0]]

CreateLoadTask ==
    /\ Len(tasks) < MaxTasks
    /\ SetState(create_task(State, LoadTaskInput))
    /\ last' = Call("create_task", Len(tasks) + 1, UnknownAgent, FALSE, "task")
    /\ UNCHANGED <<wvars, rvars, gvars>>

\* assign_task on any task and agent: the agent may already hold tasks
AssignHeldTask ==
    \E t \in TaskIds, a \in Agents :
        \E r \in {assign_task(State, t, a)} :
            /\ a \in DOMAIN agent_assignments
                  => Len(agent_assignments[a]) < MaxHeldTasks
            /\ SetState(r.S)
            /\ last' = Call("assign_task", t, a, FALSE, r.result)
            /\ UNCHANGED <<wvars, rvars, gvars>>

\* one call of _update_agent_loads by the monitor, histories included: it
\* returns (n agents updated), or an exception is raised after n agents
RefreshAgentLoads ==
    /\ monitor.pc = "refresh"
    /\ \A a \in DOMAIN sampled :
          \E idle \in IdleRefreshes :
              Len(sampled[a]) - idle \in 0..(MaxRefreshes - 1)
    /\ \E n \in 0..Cardinality(DOMAIN agents) :
          /\ agent_loads' = update_agent_loads(agent_loads, State, n)
          /\ load_history' = update_load_history(load_history, agent_loads',
                                                 agents, n)
          /\ sampled' = update_sampled(sampled, agent_loads', agents, n)
          /\ monitor' = after_refresh(monitor, n < Cardinality(DOMAIN agents))
    /\ UNCHANGED <<cvars, last, wvars, round_robin_counters, routing_decisions,
                   active_coordinations, indexes, initialized, routing_rules>>

NextLoads ==
    \/ CreateLoadTask
    \/ AssignHeldTask
    \/ RefreshAgentLoads
    \/ SleepEnds
    \/ BackOffEnds

SpecLoads == InitLoads /\ [][NextLoads]_vars

\* ------------------------------------------- agents holding several tasks
NextHeld ==
    \/ CreateLoadTask
    \/ AssignHeldTask
    \/ StartTask
    \/ CompleteTask
    \/ FailTask

\* the coordinator with agents that may hold up to MaxHeldTasks tasks
SpecHeld == Init /\ [][NextHeld]_vars


\* ------------------------------------------------------------ properties
Completed(t) == Contains(task_history, t)

TotalsUnchanged ==
    \A a \in Agents :
        agents'[a].total_tasks_completed = agents[a].total_tasks_completed

NewlyAssigned(t) ==
    /\ tasks'[t].status = "assigned"
    /\ (t > Len(tasks) \/ tasks[t].status # "assigned")

\* C2: no assignment path of the coordinator itself (create_task's immediate
\* attempt, process_task_queue, the rescan inside complete_task) moves a task
\* to assigned while one of its prerequisite dependencies is not completed.
C2_PrerequisiteBlocksAssignment ==
    [][last'.op \in {"create_task", "process_task_queue", "complete_task"} =>
         \A t \in 1..Len(tasks') :
             NewlyAssigned(t) => dependencies_met(tasks'[t])]_vars

\* C3: when a complete_task call completes task P, every queued task that
\* lists P as a dependency has that dependency's status set to completed.
C3_CompletionMarksDependents ==
    [][(/\ last'.op = "complete_task"
        /\ Contains(task_history', last'.task_id)
        /\ ~Completed(last'.task_id)) =>
         \A t \in SeqToSet(task_queue) :
             \A i \in 1..Len(tasks[t].dependencies) :
                 tasks[t].dependencies[i].task_id = last'.task_id
                     => tasks'[t].dependencies[i].status = "completed"]_vars

\* C4: a start_task call is accepted (does not return false) only for a task
\* that an assign_task has assigned, and a complete_task call is accepted only
\* for a task that a start_task has put in_progress.
C4_Sequenced ==
    [][/\ (last'.op = "start_task" /\ last'.result # "false")
             => tasks[last'.task_id].assigned_agents # <<>>
       /\ (last'.op = "complete_task" /\ last'.result # "false")
             => tasks[last'.task_id].status = "in_progress"]_vars

\* C5: assign_task for a task that is assigned or in_progress returns false
\* and changes nothing; start_task for a task whose status is not assigned
\* returns false and changes nothing.
C5_RefusedOutOfOrder ==
    \A t \in 1..Len(tasks), a \in AgentNames :
        /\ tasks[t].status \in {"assigned", "in_progress"}
              => assign_task(State, t, a) = Ret(State, "false")
        /\ tasks[t].status # "assigned"
              => start_task(State, t, a) = Ret(State, "false")

Limits == 0..MaxLimit \cup {DefaultLimit}

Returned(task, limit) ==
    {find_suitable_agents(agents, task, limit)[i].agent_name :
        i \in 1..Len(find_suitable_agents(agents, task, limit))}

\* C6: for every task, every state of the registry and every limit, no agent
\* named in task.excluded_agents is in the result of find_suitable_agents.
C6_ExcludedNeverReturned ==
    \A t \in 1..Len(tasks), limit \in Limits :
        Returned(tasks[t], limit) \cap tasks[t].excluded_agents = {}

\* C6 happens: a task excludes an agent that is available and scores at least
\* 30 for it, and find_suitable_agents returns another agent for the task.
C6_Witness ==
    \E t \in 1..Len(tasks), limit \in Limits :
        /\ Returned(tasks[t], limit) # {}
        /\ \E a \in tasks[t].excluded_agents :
              /\ agents[a].status = "available"
              /\ calculate_assignment_score(agents[a], tasks[t])
                    >= MinimumScore * ScoreDen(tasks[t])

\* C7: fail_task on an active task with retry=True leaves the task pending,
\* with no assigned agent and no error_message, in task_queue and in neither
\* active_tasks nor task_history; with retry=False it leaves the task failed,
\* in task_history and in neither task_queue nor active_tasks.
C7_FailTaskOutcome ==
    [][(last'.op = "fail_task" /\ last'.task_id \in active_tasks) =>
         IF last'.retry
         THEN /\ tasks'[last'.task_id].status = "pending"
              /\ tasks'[last'.task_id].assigned_agents = <<>>
              /\ ~tasks'[last'.task_id].error_message
              /\ Contains(task_queue', last'.task_id)
              /\ last'.task_id \notin active_tasks'
              /\ ~Contains(task_history', last'.task_id)
         ELSE /\ tasks'[last'.task_id].status = "failed"
              /\ Contains(task_history', last'.task_id)
              /\ ~Contains(task_queue', last'.task_id)
              /\ last'.task_id \notin active_tasks']_vars

Holds(aa, a, t) == a \in DOMAIN aa /\ Contains(aa[a], t)

\* C8: when fail_task(t, A, retry=True) on an active task is followed by a
\* process_task_queue pass while find_suitable_agents has an agent for t, the
\* pass leaves t assigned to exactly one agent B that was available, with t in
\* B's assignment list and not in A's.
C8_RetryReassigns ==
    [][(/\ last.op = "fail_task" /\ last.retry /\ last.result # "false"
        /\ last'.op = "process_task_queue"
        /\ find_suitable_agents(agents, tasks[last.task_id], DefaultLimit) # <<>>) =>
         \E B \in Agents :
             /\ agents[B].status = "available"
             /\ tasks'[last.task_id].status = "assigned"
             /\ tasks'[last.task_id].assigned_agents = <<B>>
             /\ Holds(agent_assignments', B, last.task_id)
             /\ last.agent # B
                   => ~Holds(agent_assignments', last.agent, last.task_id)]_vars

DependsOn(w, step_id) ==
    UNION {workflow_definitions[w].steps[i].depends_on :
              i \in {j \in 1..Len(workflow_definitions[w].steps) :
                        workflow_definitions[w].steps[j].step_id = step_id}}

\* C9: in every execution mode, a step is dispatched only when every id of
\* its depends_on is in the execution's completed_step_ids at that moment.
C9_DispatchAfterDependencies ==
    \A e \in 1..Len(executions) :
        \A d \in executions[e].dispatched :
            DependsOn(executions[e].workflow_id, d.step_id)
                \subseteq d.completed_step_ids

\* C10: a workflow whose status is completed has no step that ended failed.
C10_CompletedMeansNoFailedStep ==
    \A w \in 1..Len(workflow_definitions) :
        workflow_definitions[w].status = "completed"
            => \A i \in 1..Len(workflow_definitions[w].steps) :
                   workflow_definitions[w].steps[i].status # "failed"

InProgress(w) ==
    {i \in 1..Len(workflow_definitions[w].steps) :
        workflow_definitions[w].steps[i].status = "in_progress"}

\* C11: in a pipeline workflow with max_concurrent_steps = K, at most K steps
\* have status in_progress at any moment.
C11_PipelineConcurrencyBound ==
    \A w \in 1..Len(workflow_definitions) :
        workflow_definitions[w].workflow_type = "pipeline"
            => Cardinality(InProgress(w))
                   <= workflow_definitions[w].max_concurrent_steps

\* C12: every dispatched workflow step (its agent was resolved as registered
\* and available) has its task completed in the coordinator's task_history.
C12_StepTaskCompleted ==
    \A e \in 1..Len(executions) :
        \A d \in executions[e].dispatched :
            Contains(task_history, StepTaskId(d.step_id[1], d.step_id[2]))

KeptFailing(ex) == ex.failed_step_ids \ ex.completed_step_ids

\* C13: in one execution a step with max_retries = N is executed at most N+1
\* times, and an execution in which a step kept failing ends by marking the
\* workflow failed.
C13_RetriesThenFailed ==
    [][\A e \in 1..Len(executions) :
         /\ \A i \in 1..Len(WorkflowOf(e).steps) :
               Cardinality({k \in 1..Len(executions'[e].attempts) :
                               executions'[e].attempts[k]
                                   = WorkflowOf(e).steps[i].step_id})
                   <= WorkflowOf(e).steps[i].max_retries + 1
         /\ (/\ executions[e].pc # "done"
             /\ executions'[e].pc = "done"
             /\ KeptFailing(executions'[e]) # {})
               => workflow_definitions'[executions[e].workflow_id].status
                      = "failed"]_vars

\* the steps that step i of workflow w depends on: by step_id, or by the
\* position the template's dependency names
DependedSteps(w, i) ==
    {j \in 1..Len(workflow_definitions[w].steps) :
        \E d \in workflow_definitions[w].steps[i].depends_on :
            \/ d = workflow_definitions[w].steps[j].step_id
            \/ (d[1] < 0 /\ d[2] = j)}

Remaining(w) ==
    {i \in 1..Len(workflow_definitions[w].steps) :
        workflow_definitions[w].steps[i].status \in {"pending", "in_progress"}}

\* C15: once an execution has been running for timeout_minutes, the next
\* thing the engine does with it is to cancel it: the execution is no longer
\* active, the steps that remained are failed and the workflow is failed.
C15_TimeoutCancels ==
    [][\A e \in 1..Len(executions) :
         (/\ executions[e].active
          /\ executions[e].elapsed >= WorkflowOf(e).timeout_minutes
          /\ executions'[e] # executions[e]) =>
             /\ ~executions'[e].active
             /\ workflow_definitions'[executions[e].workflow_id].status = "failed"
             /\ \A i \in Remaining(executions[e].workflow_id) :
                   workflow_definitions'[executions[e].workflow_id].steps[i].status
                       = "failed"]_vars

StatusMoves ==
    {<<"pending", "in_progress">>, <<"in_progress", "completed">>,
     <<"in_progress", "failed">>}

\* C16: a workflow's status only moves pending -> in_progress ->
\* completed or failed; a completed or failed workflow never changes status.
C16_WorkflowStatusMachine ==
    [][\A w \in 1..Len(workflow_definitions) :
         \/ workflow_definitions'[w].status = workflow_definitions[w].status
         \/ <<workflow_definitions[w].status, workflow_definitions'[w].status>>
                \in StatusMoves]_vars

\* limits passed to find_suitable_agents: by the tests, the queue (default)
\* and the best-fit strategy
RoutingLimits == 0..MaxLimit \cup {DefaultLimit, 10}

EveryAgentExcluded(task) == DOMAIN agents \subseteq task.excluded_agents

C18_RouteTaskNeverRaises ==
    last.op = "route_task" => last.result = "decision"

\* the agents that were available when the decision was made: the selected
\* one and its alternatives (all the others, up to three agents)
AvailableAt(decision) ==
    SeqToSet(decision.alternative_agents) \cup {decision.selected_agent}

InNameOrder(names) == SelectSeq(NameOrder, LAMBDA n : n \in names)

\* the name that follows `name` in the name-sorted cycle over `names`
NextInCycle(names, name) ==
    LET order == InNameOrder(names)
        i == CHOOSE k \in 1..Len(order) : order[k] = name
    IN  order[(i % Len(order)) + 1]

\* calls k .. k + N of the trail were made with the same N available agents
FixedSet(k, N) ==
    /\ k + N <= Len(routing_decisions)
    /\ Cardinality(AvailableAt(routing_decisions[k])) = N
    /\ \A i \in k..(k + N) :
          /\ routing_decisions[i].routing_strategy = "round_robin"
          /\ AvailableAt(routing_decisions[i]) = AvailableAt(routing_decisions[k])

\* C19: with a fixed set of N available agents, successive round-robin calls
\* go through the agents cyclically in name-sorted order: call k + N selects
\* the agent of call k, and N consecutive calls select each agent once
C19_RoundRobinCycle ==
    \A k \in 1..Len(routing_decisions), N \in 1..Len(RoutedOrder) :
        FixedSet(k, N) =>
            /\ routing_decisions[k + N].selected_agent
                   = routing_decisions[k].selected_agent
            /\ {routing_decisions[i].selected_agent : i \in k..(k + N - 1)}
                   = AvailableAt(routing_decisions[k])
            /\ \A i \in k..(k + N - 1) :
                  routing_decisions[i + 1].selected_agent
                      = NextInCycle(AvailableAt(routing_decisions[k]),
                                    routing_decisions[i].selected_agent)

\* four round-robin calls with the same three available agents
C19_Witness ==
    /\ Len(routing_decisions) = 4
    /\ FixedSet(1, 3)
    /\ AvailableAt(routing_decisions[1]) = RoutedAgents
    /\ routing_decisions[4].selected_agent = routing_decisions[1].selected_agent

\* two complete_task calls for task t by agent a, one after the other: no
\* call of the coordinator is suspended between its test of active_tasks and
\* its return, so every interleaving of two calls is one of their two orders
TwoCompletions(t, a) ==
    LET first == complete_task(State, t, a)
    IN  <<first, complete_task(first.S, t, a)>>

\* C20: two concurrent complete_task calls for the same active task by its
\* agent give the outcome of a sequential order: exactly one of them returns
\* true and total_tasks_completed of the agent grows by exactly one
C20_TwoCompletionsOneTrue ==
    \A t \in active_tasks, a \in Agents :
        Contains(tasks[t].assigned_agents, a) =>
            LET calls == TwoCompletions(t, a)
            IN  /\ Cardinality({i \in 1..2 : calls[i].result = "true"}) = 1
                /\ calls[2].S.agents[a].total_tasks_completed
                       = agents[a].total_tasks_completed + 1

\* the coordinator operations that write to the activity log
LoggedCalls == {"assign_task", "start_task", "complete_task", "fail_task"}

\* C21: a failure while logging never reaches the caller of assign_task,
\* start_task, complete_task or fail_task: the call returns its boolean, and a
\* call that returns true has made all its state changes (a started task is
\* in progress, a completed or failed one has left active_tasks)
C21_LoggingNeverPropagates ==
    last.op \in LoggedCalls =>
        /\ last.result \in {"true", "false"}
        /\ (last.op \in {"complete_task", "fail_task"} /\ last.result = "true")
              => last.task_id \notin active_tasks

\* C22: after register_agent, at any time, the capability and category
\* indexes equal the multimaps derived from the registered agents, so that
\* get_agents_by_capability returns the agent for every capability it declares
\* and get_agents_by_category returns it for its category.
C22_IndexesFollowRegistration ==
    last.op = "register_agent" =>
        /\ indexes = build_indexes(agents)
        /\ \A i \in 1..Len(last.profile.capabilities) :
              last.profile.name \in
                  get_agents_by_capability(indexes.capabilities_index,
                                           last.profile.capabilities[i].name)
        /\ last.profile.name \in
              get_agents_by_category(indexes.category_index, last.profile.category)

\* the agent of the last scoring call with another reliability_score
WithReliability(rel) == [last.agent EXCEPT !.reliability_score = rel]

\* C23: for a fixed task, of two agents equal in everything except
\* reliability_score the one with the strictly higher reliability_score never
\* receives a lower assignment score, clamping to 0..100 included.
C23_ReliabilityMonotone ==
    last.op = "calculate_assignment_score" =>
        \A rel \in ReliabilityScores :
            rel > last.agent.reliability_score =>
                calculate_assignment_score(WithReliability(rel), last.task)
                    >= last.score

\* C23 happens: the score of an agent was computed and the same agent with a
\* higher reliability_score scores strictly more.
C23_Witness ==
    /\ last.op = "calculate_assignment_score"
    /\ last.agent.reliability_score = 50
    /\ last.score > 0
    /\ calculate_assignment_score(WithReliability(90), last.task) > last.score

\* C24: every AgentAssignment returned by find_suitable_agents has an
\* assignment_score between 30 and 100 inclusive; an available agent whose
\* normalized score is below 30 is never returned.
C24_ReturnedScoresInRange ==
    last.op = "find_suitable_agents" =>
        /\ \A i \in 1..Len(last.suitable_agents) :
              /\ last.suitable_agents[i].assignment_score >= 30 * ScoreDen(last.task)
              /\ last.suitable_agents[i].assignment_score <= 100 * ScoreDen(last.task)
        /\ \A a \in DOMAIN agents :
              (/\ agents[a].status = "available"
               /\ calculate_assignment_score(agents[a], last.task)
                     < 30 * ScoreDen(last.task))
              => \A i \in 1..Len(last.suitable_agents) :
                    last.suitable_agents[i].agent_name # a

\* C24 happens: find_suitable_agents returned an agent while another agent,
\* available and not excluded, scores less than 30 for the task.
C24_Witness ==
    /\ last.op = "find_suitable_agents"
    /\ last.suitable_agents # <<>>
    /\ \E a \in DOMAIN agents :
          /\ agents[a].status = "available"
          /\ a \notin last.task.excluded_agents
          /\ calculate_assignment_score(agents[a], last.task)
                < 30 * ScoreDen(last.task)

\* a condition of the step does not hold: an earlier step of the execution
\* failed, or the named agent is not there or not available
ConditionsNotMet(step, execution) ==
    \/ previous_step_success \in step.conditions /\ execution.failed_step_ids # {}
    \/ \E a \in AgentNames :
          /\ agent_available(a) \in step.conditions
          /\ (a \notin DOMAIN agents \/ agents[a].status # "available")

StepIds(dispatched) == {d.step_id : d \in dispatched}

\* C25: in a conditional workflow, a step whose conditions are not met is
\* never dispatched and is added neither to failed_step_ids nor to
\* completed_step_ids, and the engine goes on to the next step.
C25_UnmetConditionsSkip ==
    [][\A e \in 1..Len(executions) :
         (/\ WorkflowOf(e).workflow_type = "conditional"
          /\ executions[e].pc = "run"
          /\ executions'[e] # executions[e]
          /\ ConditionsNotMet(WorkflowOf(e).steps[executions[e].i], executions[e]))
         => /\ executions'[e].attempts = executions[e].attempts
            /\ executions'[e].dispatched = executions[e].dispatched
            /\ WorkflowOf(e).steps[executions[e].i].step_id
                  \notin StepIds(executions'[e].dispatched)
                          \cup executions'[e].completed_step_ids
                          \cup executions'[e].failed_step_ids
            /\ workflow_definitions'[executions[e].workflow_id]
                  .steps[executions[e].i] = WorkflowOf(e).steps[executions[e].i]
            /\ executions'[e].i = executions[e].i + 1
            /\ executions'[e].pc \in {"run", "complete"}]_vars

\* C25 happens: a conditional execution has gone through all its steps, an
\* earlier step failed, and the step that asks for previous_step_success was
\* left pending and was never attempted.
C25_Witness ==
    \E e \in 1..Len(executions) :
        /\ WorkflowOf(e).workflow_type = "conditional"
        /\ executions[e].pc = "done"
        /\ executions[e].failed_step_ids # {}
        /\ \E i \in 1..Len(WorkflowOf(e).steps) :
              /\ previous_step_success \in WorkflowOf(e).steps[i].conditions
              /\ WorkflowOf(e).steps[i].status = "pending"
              /\ ~Contains(executions[e].attempts, WorkflowOf(e).steps[i].step_id)

\* the step cannot be retried: line 445
CannotRetry(wf, step) ==
    ~wf.auto_retry_failed_steps \/ step.retry_count >= step.max_retries

\* C26: in a sequential workflow, once a step fails and cannot be retried, or
\* fails again on its in-place retry, no later step is dispatched and the
\* workflow ends with status failed.
C26_SequentialAbort ==
    [][\A e \in 1..Len(executions) :
         WorkflowOf(e).workflow_type = "sequential" =>
            /\ (/\ executions[e].pc = "run"
                /\ Len(executions'[e].attempts) > Len(executions[e].attempts)
                /\ workflow_definitions'[executions[e].workflow_id]
                      .steps[executions[e].i].status = "failed")
               => /\ executions'[e].pc = "fail"
                  /\ \/ /\ Len(executions'[e].attempts)
                              = Len(executions[e].attempts) + 1
                        /\ CannotRetry(WorkflowOf(e),
                                       WorkflowOf(e).steps[executions[e].i])
                     \/ /\ Len(executions'[e].attempts)
                              = Len(executions[e].attempts) + 2
                        /\ ~CannotRetry(WorkflowOf(e),
                                        WorkflowOf(e).steps[executions[e].i])
            /\ (executions[e].pc = "fail" /\ executions'[e] # executions[e])
               => /\ executions'[e].pc = "done"
                  /\ ~executions'[e].active
                  /\ executions'[e].attempts = executions[e].attempts
                  /\ executions'[e].dispatched = executions[e].dispatched
                  /\ workflow_definitions'[executions[e].workflow_id].status
                        = "failed"
            /\ executions[e].pc = "done" => executions'[e] = executions[e]]_vars

\* C26 happens: a sequential execution has ended, its workflow is failed, a
\* step failed after its in-place retry and a later step was never attempted.
C26_Witness ==
    \E e \in 1..Len(executions) :
        /\ WorkflowOf(e).workflow_type = "sequential"
        /\ executions[e].pc = "done"
        /\ WorkflowOf(e).status = "failed"
        /\ \E i, j \in 1..Len(WorkflowOf(e).steps) :
              /\ i < j
              /\ WorkflowOf(e).steps[i].status = "failed"
              /\ WorkflowOf(e).steps[i].retry_count = 1
              /\ ~Contains(executions[e].attempts, WorkflowOf(e).steps[j].step_id)

\* execution e has ended: its coroutine is over and it is out of
\* active_workflows
Ended(e) ==
    /\ Len(executions) >= e
    /\ executions[e].pc = "done"
    /\ ~executions[e].active

\* C27: every workflow execution started by execute_workflow eventually
\* reaches status completed or failed, and from that point its execution
\* object is no longer in active_workflows: the executions all end and stay
\* ended, and an execution ends with its workflow completed or failed.
C27_ExecutionsEnd ==
    /\ <>[](\A e \in 1..Len(executions) : Ended(e))
    /\ [][\A e \in 1..Len(executions) :
             /\ (~Ended(e) /\ Ended(e)')
                   => workflow_definitions'[executions[e].workflow_id].status
                          \in {"completed", "failed"}
             /\ Ended(e) => Ended(e)']_vars

\* C27 happens: two executions were started and both have ended, one of a
\* workflow now completed or failed.
C27_Witness ==
    /\ Len(executions) = MaxExecutions
    /\ \A e \in 1..Len(executions) : Ended(e)
    /\ \E e \in 1..Len(executions) :
          WorkflowOf(e).status \in {"completed", "failed"}

\* C28: when _evaluate_routing_rule is evaluated for an agent listed in the
\* rule's excluded_agents the returned score is 0, whatever the rule's task
\* patterns, categories and priority levels, and the rule appears in neither
\* applied_rules nor decision_factors of the best-fit decision.
C28_ExcludedAgentRuleIsZero ==
    /\ (last.op = "evaluate_routing_rule"
           /\ last.agent_name \in last.rule.excluded_agents)
          => last.score = 0
    /\ last.op = "route_with_best_fit" =>
          \A i \in 1..Len(routing_rules) :
              last.selected_agent \in routing_rules[i].excluded_agents =>
                  /\ ~Contains(last.applied_rules, routing_rules[i].name)
                  /\ routing_rules[i].name \notin DOMAIN last.decision_factors

\* C29: every RoutingDecision returned by route_task, a forced-agent decision
\* included, is appended to routing_decisions, and entries already in the
\* trail are never removed or changed, so that the statistics' total equals
\* the number of decisions returned.
C29_AppendOnlyTrail ==
    [][/\ Len(routing_decisions') >= Len(routing_decisions)
       /\ SubSeq(routing_decisions', 1, Len(routing_decisions)) = routing_decisions
       /\ (/\ last'.op = "route_task"
           /\ last'.result = "decision"
           /\ agents' = agents)
          => routing_decisions' = Append(routing_decisions, last'.decision)]_vars

\* C30: the background load sampler never terminates: any exception raised
\* while refreshing agent loads is caught, and after the back-off the loop
\* refreshes again, so a refresh always eventually follows an error.
C30_MonitorNeverEnds ==
    /\ [](monitor.pc \in {"refresh", "sleep", "backoff"})
    /\ \A calls \in {0, 1} :
          (monitor.pc = "backoff" /\ monitor.calls = calls)
              ~> (monitor.calls # calls /\ monitor.woke_from = "backoff")

\* C30 happens: a refresh raised, the monitor backed off, and the refresh
\* after the back-off went through and changed an agent's load.
C30_Witness ==
    /\ monitor.pc = "sleep"
    /\ monitor.woke_from = "backoff"
    /\ \E a \in DOMAIN agent_loads : agent_loads[a].utilization_percentage > 0

\* the last n elements of s, in order
LastOf(s, n) == SubSeq(s, Max(1, Len(s) - n + 1), Len(s))

\* C31: after any number of refreshes every agent's load_history holds at
\* most 100 samples, and they are the most recent samples in sampling order
C31_HistoryKeepsLatest ==
    \A a \in DOMAIN load_history :
        /\ Len(load_history[a]) <= HistoryLimit
        /\ load_history[a] = LastOf(sampled[a], HistoryLimit)

\* more than 100 samples were taken for an agent whose load changed meanwhile
C31_Witness ==
    \E a \in DOMAIN load_history :
        /\ Len(sampled[a]) > HistoryLimit
        /\ Len(load_history[a]) = HistoryLimit
        /\ load_history[a][HistoryLimit] # load_history[a][1]
        /\ load_history[a][HistoryLimit] # load_history[a][HistoryLimit - 1]

\* the number of times x occurs in the list s
Occurrences(s, x) == Len(SelectSeq(s, LAMBDA y : y = x))

\* in how many of task_queue, active_tasks and task_history the task is
\* (a double entry in one list counts twice)
Places(t) ==
    Occurrences(task_queue, t) + (IF t \in active_tasks THEN 1 ELSE 0)
        + Occurrences(task_history, t)

\* C32: every task created by create_task is in exactly one of task_queue,
\* active_tasks and task_history, never lost and never in two of them
C32_TaskInExactlyOnePlace ==
    \A t \in 1..Len(tasks) : Places(t) = 1

\* the agent's assignment list (empty when the agent has none)
AssignmentsOf(a) ==
    IF a \in DOMAIN agent_assignments THEN agent_assignments[a] ELSE <<>>

\* C33: a task id is in agent_assignments[a] exactly when the task is in
\* active_tasks with a in its assigned_agents, and it is there at most once
C33_AssignmentsMatchActiveTasks ==
    \A a \in AgentNames, t \in 1..Len(tasks) :
        /\ Contains(AssignmentsOf(a), t)
              <=> (t \in active_tasks /\ Contains(tasks[t].assigned_agents, a))
        /\ Occurrences(AssignmentsOf(a), t) <= 1

\* C34: an agent's registry status is "available" only if its assignment
\* list is empty, so an agent that holds an active task is never available
C34_AvailableMeansIdle ==
    \A a \in DOMAIN agents :
        agents[a].status = "available"
            => /\ AssignmentsOf(a) = <<>>
               /\ \A t \in active_tasks : ~Contains(tasks[t].assigned_agents, a)

\* an agent has completed one of its tasks and still holds another active one
C34_Witness ==
    /\ last.op = "complete_task"
    /\ last.result # "false"
    /\ last.agent \in DOMAIN agents
    /\ agents[last.agent].status = "busy"
    /\ \E t \in active_tasks : Contains(tasks[t].assigned_agents, last.agent)

\* C35: complete_task and fail_task called with an agent that is not in the
\* task's assigned_agents return false, raise nothing and change nothing
C35_ForeignAgentRefused ==
    [][(/\ last'.op \in {"complete_task", "fail_task"}
        /\ last'.task_id \in 1..Len(tasks)
        /\ ~Contains(tasks[last'.task_id].assigned_agents, last'.agent))
          => (last'.result = "false" /\ UNCHANGED cvars)]_vars

\* C36: every task in task_queue is pending with no assigned agent, every
\* task in active_tasks is assigned or in_progress with exactly one assigned
\* agent, and every task in task_history is completed or failed
C36_StatusMatchesCollection ==
    \A t \in 1..Len(tasks) :
        /\ Contains(task_queue, t)
              => tasks[t].status = "pending" /\ tasks[t].assigned_agents = <<>>
        /\ t \in active_tasks
              => /\ tasks[t].status \in {"assigned", "in_progress"}
                 /\ Len(tasks[t].assigned_agents) = 1
        /\ Contains(task_history, t)
              => tasks[t].status \in {"completed", "failed"}

\* C37: for every routing strategy, the agent selected by route_task without
\* force_agent is never in the task's excluded_agents
C37_SelectedNeverExcluded ==
    (/\ last.op = "route_task"
     /\ last.result = "decision"
     /\ last.decision.branch # "forced_assignment")
        => ~IsExcluded(last.decision.selected_agent,
                       RoutedTasks[last.decision.task_id])

C40_UtilizationInRange ==
    \A a \in DOMAIN agent_loads :
        /\ agent_loads[a].utilization_percentage >= 0
        /\ agent_loads[a].utilization_percentage <= 100

====
